---- MODULE Spec2Model ----
(***************************************************************************)
(* Model of the debounced document tracking (DocumentTracker), of the      *)
(* annotation suspend/resume state machine (AnnotationState) and of the    *)
(* current-line blame pipeline (CurrentLineController) of GitLens.         *)
(*                                                                         *)
(* Three specifications share the module, one per component:               *)
(*   SpecAnnotation  direct calls of reset, suspend and resume             *)
(*   SpecTracker     the host's document events driving DocumentTracker    *)
(*   SpecBlame       refresh / updateBlame of CurrentLineController        *)
(* Each leaves the variables of the other components unchanged.            *)
(***************************************************************************)
EXTENDS Integers, Sequences, FiniteSets, TLC

VARIABLES
    (* AnnotationState *)
    _enabled,                       \* AnnotationState._enabled
    _suspendReason,                 \* AnnotationState._suspendReason
    calls,                          \* observation: the calls made so far, with what they returned
    (* the editor host *)
    activeTextEditor,               \* window.activeTextEditor
    isDirty,                        \* TextDocument.isDirty, per document
    events,                         \* the number of events the host has raised
    (* DocumentTracker *)
    _documentMap,                   \* Map<TextDocument | string, TrackedDocument>
    records,                        \* every TrackedDocument ever constructed
    _dirtyIdleTriggerDelay,
    _dirtyIdleTriggeredDebounced,
    _dirtyStateChangedDebounced,
    orphanedIdle,                   \* timers of idle debouncers the tracker no longer references
    textChangedDebounced,           \* Functions.debounce(this.onTextDocumentChanged, 50)
    activeEditorDebounced,          \* Functions.debounce(this.onActiveTextEditorChanged, 0)
    immediates,                     \* callbacks queued with setImmediate
    initWaiters,                    \* continuations awaiting ensureInitialized()
    lastNote,                       \* observation: the last dirty-state-changed notification
    lastIdle,                       \* observation: the last idle-trigger notification
    sinceCleanSched,                \* observation: ms since the clean debounce was last called
    _disposable,                    \* whether the tracker's event subscriptions are live
    apiCalls,                       \* add / get / getOrAdd calls awaiting ensureInitialized()
    lastReturns,                    \* observation: what the API calls completed by the last such step returned
    adding,                         \* getOrAdd calls between their lookup and their _add
    (* CurrentLineController and its line tracker *)
    _blameAnnotationState,          \* whether the controller holds an AnnotationState
    _editor,                        \* CurrentLineController._editor
    _hoverProviderDisposable,       \* whether hover providers are registered
    refreshing,                     \* refresh calls awaiting tracker.getOrAdd
    lines,                          \* GitLineTracker.lines
    lineState,                      \* GitLineTracker state, per line
    _updateBlameDebounced,
    inFlight,                       \* updateBlame calls awaiting their Git-data fetch
    statusBarText,                  \* StatusBarItem.text (and whether it is shown)
    decorations,                    \* trailing decorations, per editor
    blameCfg,                       \* configuration and repository read by the controller
    lastBlame,                      \* observation: the last resumption of updateBlame
    _debugSessionEndDisposable,     \* whether the field holds a session-end listener
    debugHost,                      \* the host's debug sessions and live session-end listeners
    lastRefresh,                    \* observation: what the last suspend / resume handler refreshed
    (* DiffDirectoryCommand *)
    diffCommand,                    \* the call of execute that is under way, and what it did
    _roots,                         \* ResultsExplorer._roots: the root nodes, first to last
    nodes,                          \* the explorer nodes constructed so far (a node is its index)
    keepResults,                    \* workspace state ResultsExplorerKeepResults
    savedResults,                   \* configuration resultsExplorer.savedResults: the type of each
    lastAdd                         \* observation: the last call of addResults, what it returned
                                    \* and whether it cleared the roots

annVars == <<_enabled, _suspendReason, calls>>
hostState == <<activeTextEditor, isDirty>>
hostVars == <<hostState, events>>
trkVars == <<_documentMap, records, _dirtyIdleTriggerDelay, _dirtyIdleTriggeredDebounced,
             _dirtyStateChangedDebounced, orphanedIdle, textChangedDebounced,
             activeEditorDebounced, immediates, initWaiters, lastNote, lastIdle,
             sinceCleanSched>>
ctlVars == <<_blameAnnotationState, _editor, _hoverProviderDisposable, refreshing, lines, lineState, _updateBlameDebounced, inFlight, statusBarText,
             decorations, blameCfg, lastBlame>>
apiVars == <<_disposable, apiCalls, lastReturns, adding>>
dbgVars == <<_debugSessionEndDisposable, debugHost, lastRefresh>>
cmdVars == <<diffCommand>>
expVars == <<_roots, nodes, keepResults, savedResults, lastAdd>>
vars == <<annVars, hostVars, trkVars, ctlVars, apiVars, dbgVars, cmdVars, expVars>>

Undefined == "undefined"

Min(a, b) == IF a < b THEN a ELSE b
Max(a, b) == IF a > b THEN a ELSE b

(***************************************************************************)
(* AnnotationState                                                         *)
(***************************************************************************)
MaxCalls == 3

Reasons == {"debugging", "dirty"}

\* get suspended()
suspended(reason) == reason # Undefined

\* Variant of the getter that returns the base flag even while suspended.
EnabledIgnoringSuspension(en, reason) == en

\* get enabled()
enabled(en, reason) == IF suspended(reason) THEN FALSE ELSE en

\* Variant of reset that leaves a suspension in place.
ResetKeepingSuspension(en, reason, e) ==
    IF en = e THEN [enabled |-> en, reason |-> reason, ret |-> FALSE]
    ELSE [enabled |-> e, reason |-> reason, ret |-> TRUE]

\* reset(enabled): the state after the call and the value returned
reset(en, reason, e) ==
    IF en = e /\ ~suspended(reason)
    THEN [enabled |-> en, reason |-> reason, ret |-> FALSE]
    ELSE [enabled |-> e, reason |-> Undefined, ret |-> TRUE]

\* Variant of resume that clears the base flag along with the reason.
ResumeDroppingBase(en, reason, r) ==
    [enabled |-> FALSE, reason |-> Undefined, ret |-> reason # Undefined]

\* Variant of resume that ends only a suspension recorded under its reason.
ResumeMatchingOnly(en, reason, r) ==
    IF reason = r THEN [enabled |-> en, reason |-> Undefined, ret |-> TRUE]
    ELSE [enabled |-> en, reason |-> reason, ret |-> FALSE]

\* resume(reason)
resume(en, reason, r) ==
    [enabled |-> en, reason |-> Undefined, ret |-> reason # Undefined]

\* Variant of suspend that keeps the reason of the first suspension.
SuspendKeepingFirst(en, reason, r) ==
    [enabled |-> en, reason |-> IF reason = Undefined THEN r ELSE reason,
     ret |-> reason = Undefined]

\* suspend(reason)
suspend(en, reason, r) ==
    [enabled |-> en, reason |-> r, ret |-> reason = Undefined]

InitAnnotation ==
    /\ _enabled \in BOOLEAN
    /\ _suspendReason = Undefined
    /\ calls = <<>>

Called(op, arg, out) ==
    /\ Len(calls) < MaxCalls
    /\ _enabled' = out.enabled
    /\ _suspendReason' = out.reason
    /\ calls' = Append(calls, [op |-> op, arg |-> arg, ret |-> out.ret,
                               baseBefore |-> _enabled,
                               enabledAfter |-> enabled(out.enabled, out.reason)])

Reset(e) == Called("reset", e, reset(_enabled, _suspendReason, e))
Suspend(r) == Called("suspend", r, suspend(_enabled, _suspendReason, r))
Resume(r) == Called("resume", r, resume(_enabled, _suspendReason, r))

(***************************************************************************)
(* The editor host: documents, editors, the event loop's clock             *)
(***************************************************************************)
\* Two files, each shown in a text editor, and the document of an output
\* channel, which changes but is never dirty and is no text editor.
Docs == {"a", "b", "o"}

\* TextDocument.uri.scheme
Scheme(d) == IF d = "o" THEN "output" ELSE "file"

\* One text editor per file; the editor is named after its document.
Editors == {d \in Docs : Scheme(d) = "file"}
EditorDocument(ed) == ed

MaxEvents == 3
IdleDelayTicks == 2

\* A GitUri (a file at a revision), the document that
\* workspace.openTextDocument opens for its versioned path, and the
\* MissingRevisionTextDocument objects constructed when that fails.
GitUris == {"g"}
RevisionDocs == {"v"}
PlaceholderNames == <<"m1", "m2", "m3", "m4", "m5">>
Placeholders == {PlaceholderNames[i] : i \in 1..MaxEvents}
AllDocs == Docs \cup RevisionDocs \cup Placeholders

\* GitUri.toKey(document.uri); a placeholder's uri is the versioned path
toKey(d) == CASE d = "a" -> "key:a" [] d = "b" -> "key:b" [] d = "o" -> "key:o"
              [] OTHER -> "key:v"
Keys == {toKey(d) : d \in AllDocs}


\* The host raises one more event (the bound of the model).
HostEvent ==
    /\ events < MaxEvents
    /\ events' = events + 1

TextChangedWait == 50
ActiveEditorWait == 0
DirtyStateChangedWait == 250

\* The step of the clock: the shortest positive wait of the program.
Quantum == TextChangedWait

\* The values of gitlens.advanced.blame.delayAfterEdit the model draws from.
DelayChoices == {0, IdleDelayTicks * Quantum}

NoEvent == [editor |-> Undefined, document |-> 0, dirty |-> FALSE, flip |-> FALSE]

(***************************************************************************)
(* Functions.debounce: one timer per debounced function; a call (re)starts *)
(* the timer with the latest arguments, cancel() drops it, pending() tells *)
(* whether a call is waiting.  state "undefined" is a field that holds no  *)
(* debounced function.  tag is an observation carried with the waiting     *)
(* call: "fresh", "overtaken" (a dirty transition was handled after the    *)
(* call, once its wait had run out) or "undone" (a dirty transition was    *)
(* handled while the wait was still running).                              *)
(***************************************************************************)
NoDebounce == [state |-> "undefined", wait |-> 0, remaining |-> 0, args |-> NoEvent,
               tag |-> "fresh"]

debounce(wait) == [state |-> "idle", wait |-> wait, remaining |-> 0, args |-> NoEvent,
                   tag |-> "fresh"]

DebounceCall(deb, args) ==
    [deb EXCEPT !.state = "pending", !.remaining = deb.wait, !.args = args, !.tag = "fresh"]

DebounceCancel(deb) ==
    IF deb.state = "undefined" THEN deb
    ELSE [deb EXCEPT !.state = "idle", !.remaining = 0, !.args = NoEvent, !.tag = "fresh"]

\* The timer ran out and the debounced function is being invoked.
DebounceInvoked(deb) == DebounceCancel(deb)

DebouncePending(deb) == deb.state = "pending"

DebounceDue(deb) == deb.state = "pending" /\ deb.remaining = 0

DebounceTick(deb) ==
    IF deb.state = "pending" THEN [deb EXCEPT !.remaining = Max(0, deb.remaining - Quantum)]
    ELSE deb

\* A dirty transition is handled: mark the waiting call of the clean debounce.
MarkDirtyTransition(deb) ==
    IF deb.state = "pending"
    THEN [deb EXCEPT !.tag = IF deb.remaining > 0 THEN "undone"
                              ELSE IF deb.tag = "undone" THEN "undone" ELSE "overtaken"]
    ELSE deb

(***************************************************************************)
(* TrackedDocument (trackedDocument.ts): the constructor call of addCore   *)
(* passes dirty = false; initialization runs asynchronously.               *)
(* forceBlameChange tells whether update({ forceBlameChange: true }) was   *)
(* requested of the record, state whether the record holds cached Git      *)
(* data, lastReset the reason given to its last reset(reason).             *)
(***************************************************************************)
NewTrackedDocument(d) ==
    [document |-> d, dirty |-> FALSE, force |-> FALSE, disposed |-> FALSE,
     initialized |-> FALSE, forceBlameChange |-> FALSE,
     state |-> "undefined", lastReset |-> ""]

RecIds == 1..MaxEvents

\* addCore(document): the map and the records afterwards, and the record returned
addCore(map, recs, d) ==
    LET id == Len(recs) + 1 IN
    [map |-> [map EXCEPT ![d] = id, ![toKey(d)] = id],
     records |-> Append(recs, NewTrackedDocument(d)),
     doc |-> id]

(***************************************************************************)
(* Observations of DocumentTracker                                         *)
(***************************************************************************)
NoNote == [rec |-> 0, dirty |-> FALSE, flip |-> FALSE, tag |-> "fresh", quiet |-> 0,
           dup |-> FALSE]

NoExpiry == [docDirty |-> FALSE, recDirty |-> FALSE, orphan |-> FALSE]

NoIdle == [rec |-> 0, delay |-> 0, expiry |-> NoExpiry]

\* this._onDidChangeDirtyState.fire(e), as the listeners see it
NoteOf(prev, w) ==
    [rec |-> w.e.document, dirty |-> w.e.dirty, flip |-> w.e.flip, tag |-> w.tag,
     quiet |-> w.quiet,
     dup |-> /\ prev.rec = w.e.document
             /\ prev.dirty = w.e.dirty
             /\ prev.flip /\ w.e.flip]

\* this._onDidTriggerDirtyIdle.fire(e), as the listeners see it
IdleOf(w, delay) == [rec |-> w.e.document, delay |-> delay, expiry |-> w.expiry]

\* The continuations of ws (in order) run: the notifications they fire.
RECURSIVE Delivered(_, _, _)
Delivered(ws, obs, delay) ==
    IF ws = <<>> THEN obs
    ELSE LET w == Head(ws) IN
         Delivered(Tail(ws),
                   IF w.kind = "dirtyState"
                   THEN [obs EXCEPT !.note = NoteOf(obs.note, w)]
                   ELSE [obs EXCEPT !.idle = IdleOf(w, delay)],
                   delay)

\* await e.document.ensureInitialized(); fire: at once when the record is
\* initialized, otherwise when its initialization completes.
AwaitInitThenFire(w) ==
    IF records[w.e.document].initialized
    THEN LET obs == Delivered(<<w>>, [note |-> lastNote, idle |-> lastIdle],
                              _dirtyIdleTriggerDelay) IN
         /\ lastNote' = obs.note
         /\ lastIdle' = obs.idle
         /\ initWaiters' = initWaiters
    ELSE /\ initWaiters' = Append(initWaiters, w)
         /\ UNCHANGED <<lastNote, lastIdle>>

(***************************************************************************)
(* Calls of the tracker's API and what they return                         *)
(***************************************************************************)
\* What _get looks its argument up under: a GitUri under the key of its
\* versioned path, a string under its key, a TextDocument as itself.
lookupKey(x) == IF x \in GitUris THEN toKey("v") ELSE x

\* An API call: the operation, its argument, the record it is about to
\* return (0: undefined) and whether the call constructed that record.
Call(op, x, r, created) == [op |-> op, arg |-> x, doc |-> r, created |-> created]

\* What the caller of a completed call gets, and what it would see then:
\* whether the record is initialized, and whether the map holds the argument.
ReturnOf(c, map, recs) ==
    [op |-> c.op, arg |-> c.arg, doc |-> c.doc, created |-> c.created, threw |-> FALSE,
     initialized |-> c.doc # 0 /\ recs[c.doc].initialized,
     has |-> map[lookupKey(c.arg)] # 0]

\* The call fails with the exception that openTextDocument raised.
Thrown(op, x, map) ==
    [op |-> op, arg |-> x, doc |-> 0, created |-> FALSE, threw |-> TRUE,
     initialized |-> FALSE, has |-> map[lookupKey(x)] # 0]

\* Variant of ensureInitialized that lets every caller through at once.
NeverAwaits(recs, r) == FALSE

\* await doc.ensureInitialized(): whether the caller has to wait
awaitsInitialization(recs, r) == ~recs[r].initialized

\* await doc.ensureInitialized(); return doc
awaitThenReturn(c, map, recs) ==
    IF awaitsInitialization(recs, c.doc)
    THEN /\ apiCalls' = apiCalls \cup {c}
         /\ UNCHANGED lastReturns
    ELSE /\ apiCalls' = apiCalls
         /\ lastReturns' = {ReturnOf(c, map, recs)}

(***************************************************************************)
(* DocumentTracker                                                         *)
(***************************************************************************)
\* Variant of the clean branch that debounces by 50ms instead of 250ms.
FireCleanWithShortWait(e, st) ==
    LET deb == IF st.clean.state = "undefined" THEN debounce(TextChangedWait) ELSE st.clean IN
    [st EXCEPT !.clean = DebounceCall(deb, e), !.sinceClean = 0]

\* fireDocumentDirtyStateChanged(e), e.dirty: queue the notification with
\* setImmediate and (re)start the idle trigger when the delay is positive.
FireDirty(e, st) ==
    LET deb == IF st.idle.state = "undefined" THEN debounce(st.delay) ELSE st.idle IN
    [st EXCEPT !.immediates = Append(st.immediates, e),
               !.clean = MarkDirtyTransition(st.clean),
               !.idle = IF st.delay > 0
                        THEN DebounceCall(deb, [e EXCEPT !.dirty = FALSE, !.flip = FALSE])
                        ELSE st.idle]

\* fireDocumentDirtyStateChanged(e), ~e.dirty: (re)start the 250ms debounce.
FireClean(e, st) ==
    LET deb == IF st.clean.state = "undefined" THEN debounce(DirtyStateChangedWait)
               ELSE st.clean IN
    [st EXCEPT !.clean = DebounceCall(deb, e), !.sinceClean = 0]

\* fireDocumentDirtyStateChanged(e) on st = [immediates, idle, clean, delay, sinceClean]
fireDocumentDirtyStateChanged(e, st) ==
    IF e.dirty THEN FireDirty(e, st) ELSE FireClean(e, st)

\* Variant of the early returns without the active-document test.
ShouldFireIgnoringActive(force, recDirty, dirty, editor, d) ==
    force \/ recDirty # dirty

\* onTextDocumentChanged: whether the change reaches fireDocumentDirtyStateChanged
ShouldFire(force, recDirty, dirty, editor, d) ==
    /\ force \/ recDirty # dirty
    /\ editor # Undefined /\ EditorDocument(editor) = d

\* The idle tracker of onTextDocumentChanged: reset it or cancel it.
FeedIdle(deb, dirty, editor, r) ==
    IF deb.state = "undefined" THEN deb
    ELSE IF dirty
         THEN DebounceCall(deb, [NoEvent EXCEPT !.editor = editor, !.document = r])
         ELSE DebounceCancel(deb)

\* onTextDocumentChanged(e), run by its 50ms debounce
onTextDocumentChanged(d) ==
    IF Scheme(d) # "file"
    THEN UNCHANGED <<_documentMap, records, _dirtyIdleTriggeredDebounced,
                        _dirtyStateChangedDebounced, immediates, sinceCleanSched>>
    ELSE LET known == _documentMap[d] # 0
             added == IF known
                      THEN [map |-> _documentMap, records |-> records, doc |-> _documentMap[d]]
                      ELSE addCore(_documentMap, records, d)
             r == added.doc
             rec == added.records[r]
             dirty == isDirty[d]
             editor == activeTextEditor
             idle1 == FeedIdle(_dirtyIdleTriggeredDebounced, dirty, editor, r)
             proceed == rec.force \/ rec.dirty # dirty
             fire == ShouldFire(rec.force, rec.dirty, dirty, editor, d)
             e == [editor |-> editor, document |-> r, dirty |-> dirty,
                   flip |-> rec.dirty # dirty]
             st0 == [immediates |-> immediates, idle |-> idle1,
                     clean |-> _dirtyStateChangedDebounced,
                     delay |-> _dirtyIdleTriggerDelay, sinceClean |-> sinceCleanSched]
             st1 == IF fire THEN fireDocumentDirtyStateChanged(e, st0) ELSE st0
         IN
         /\ _documentMap' = added.map
         /\ records' = IF proceed
                       THEN [added.records EXCEPT ![r].force = FALSE, ![r].dirty = dirty]
                       ELSE added.records
         /\ _dirtyIdleTriggeredDebounced' = st1.idle
         /\ _dirtyStateChangedDebounced' = st1.clean
         /\ immediates' = st1.immediates
         /\ sinceCleanSched' = st1.sinceClean

\* The 50ms debounce of onTextDocumentChanged runs out.
TextDocumentChangedTimer ==
    /\ DebounceDue(textChangedDebounced)
    /\ textChangedDebounced' = DebounceInvoked(textChangedDebounced)
    /\ onTextDocumentChanged(textChangedDebounced.args.document)
    /\ UNCHANGED <<_dirtyIdleTriggerDelay, orphanedIdle, activeEditorDebounced, initWaiters,
                   lastNote, lastIdle>>
    /\ UNCHANGED <<annVars, dbgVars, cmdVars, expVars, apiVars, hostVars, ctlVars>>

\* Variant of the setImmediate callback that leaves the clean debounce running.
ImmediateKeepingClean(deb) == deb

\* The first statement of the setImmediate callback: cancel the clean debounce.
ImmediateCancel(deb) == DebounceCancel(deb)

\* The setImmediate callback of fireDocumentDirtyStateChanged (e.dirty)
DirtyStateImmediate ==
    /\ immediates # <<>>
    /\ LET e == Head(immediates) IN
       /\ immediates' = Tail(immediates)
       /\ _dirtyStateChangedDebounced' = ImmediateCancel(_dirtyStateChangedDebounced)
       /\ sinceCleanSched' = IF DebouncePending(_dirtyStateChangedDebounced') THEN sinceCleanSched
                             ELSE 0
       /\ IF activeTextEditor # e.editor
          THEN UNCHANGED <<initWaiters, lastNote, lastIdle>>
          ELSE AwaitInitThenFire([kind |-> "dirtyState", e |-> e, tag |-> "fresh",
                                  quiet |-> 0, expiry |-> NoExpiry])
    /\ UNCHANGED <<_documentMap, records, _dirtyIdleTriggerDelay, _dirtyIdleTriggeredDebounced,
                   orphanedIdle, textChangedDebounced, activeEditorDebounced>>
    /\ UNCHANGED <<annVars, dbgVars, cmdVars, expVars, apiVars, hostVars, ctlVars>>

\* The 250ms debounce of the clean notification runs out.
DirtyStateChangedTimer ==
    /\ DebounceDue(_dirtyStateChangedDebounced)
    /\ LET deb == _dirtyStateChangedDebounced
           e == deb.args IN
       /\ _dirtyStateChangedDebounced' = DebounceInvoked(deb)
       /\ sinceCleanSched' = 0
       /\ IF activeTextEditor # e.editor
          THEN UNCHANGED <<initWaiters, lastNote, lastIdle>>
          ELSE AwaitInitThenFire([kind |-> "dirtyState", e |-> e, tag |-> deb.tag,
                                  quiet |-> sinceCleanSched, expiry |-> NoExpiry])
    /\ UNCHANGED <<_documentMap, records, _dirtyIdleTriggerDelay, _dirtyIdleTriggeredDebounced,
                   orphanedIdle, textChangedDebounced, activeEditorDebounced, immediates>>
    /\ UNCHANGED <<annVars, dbgVars, cmdVars, expVars, apiVars, hostVars, ctlVars>>

\* The callback of the idle debounce: give way to a newer pending call,
\* await the record's initialization, set isDirtyIdle and fire.
IdleCallback(e, orphan) ==
    IF DebouncePending(_dirtyIdleTriggeredDebounced')
    THEN UNCHANGED <<initWaiters, lastNote, lastIdle>>
    ELSE AwaitInitThenFire([kind |-> "idle", e |-> e, tag |-> "fresh", quiet |-> 0,
                            expiry |-> [docDirty |-> isDirty[records[e.document].document],
                                        recDirty |-> records[e.document].dirty,
                                        orphan |-> orphan]])

\* The idle debounce the tracker references runs out.
DirtyIdleTimer ==
    /\ DebounceDue(_dirtyIdleTriggeredDebounced)
    /\ _dirtyIdleTriggeredDebounced' = DebounceInvoked(_dirtyIdleTriggeredDebounced)
    /\ IdleCallback(_dirtyIdleTriggeredDebounced.args, FALSE)
    /\ UNCHANGED <<_documentMap, records, _dirtyIdleTriggerDelay, _dirtyStateChangedDebounced,
                   orphanedIdle, textChangedDebounced, activeEditorDebounced, immediates,
                   sinceCleanSched>>
    /\ UNCHANGED <<annVars, dbgVars, cmdVars, expVars, apiVars, hostVars, ctlVars>>

\* The timer of an idle debounce that onConfigurationChanged dropped runs out.
OrphanedIdleTimer ==
    \E t \in orphanedIdle :
        /\ t.remaining = 0
        /\ orphanedIdle' = orphanedIdle \ {t}
        /\ UNCHANGED _dirtyIdleTriggeredDebounced
        /\ IdleCallback(t.args, TRUE)
        /\ UNCHANGED <<_documentMap, records, _dirtyIdleTriggerDelay,
                       _dirtyStateChangedDebounced, textChangedDebounced,
                       activeEditorDebounced, immediates, sinceCleanSched>>
        /\ UNCHANGED <<annVars, dbgVars, cmdVars, expVars, apiVars, hostVars, ctlVars>>

\* A record's initialization completes: the continuations awaiting it run in
\* order, and the API calls awaiting it return the record.
InitializationCompleted(r) ==
    /\ r \in 1..Len(records)
    /\ ~records[r].initialized
    /\ records' = [records EXCEPT ![r].initialized = TRUE]
    /\ LET mine == SelectSeq(initWaiters, LAMBDA w : w.e.document = r)
           obs == Delivered(mine, [note |-> lastNote, idle |-> lastIdle],
                            _dirtyIdleTriggerDelay) IN
       /\ initWaiters' = SelectSeq(initWaiters, LAMBDA w : w.e.document # r)
       /\ lastNote' = obs.note
       /\ lastIdle' = obs.idle
    /\ LET done == {c \in apiCalls : c.doc = r} IN
       /\ apiCalls' = apiCalls \ done
       /\ lastReturns' = IF done = {} THEN lastReturns
                         ELSE {ReturnOf(c, _documentMap,
                                        [records EXCEPT ![r].initialized = TRUE]) :
                               c \in done}
    /\ UNCHANGED <<_documentMap, _dirtyIdleTriggerDelay, _dirtyIdleTriggeredDebounced,
                   _dirtyStateChangedDebounced, orphanedIdle, textChangedDebounced,
                   activeEditorDebounced, immediates, sinceCleanSched, _disposable, adding>>
    /\ UNCHANGED <<annVars, dbgVars, cmdVars, expVars, hostVars, ctlVars>>

\* Variant of the reset loop that stops after the first record.
ResetFirstOnly(recs, map) ==
    [q \in 1..Len(recs) |->
        IF q = 1 /\ \E k \in DOMAIN map : map[k] = q
        THEN [recs[q] EXCEPT !.state = "undefined", !.lastReset = "config"]
        ELSE recs[q]]

\* for (const d of this._documentMap.values()) d.reset('config')
resetAll(recs, map) ==
    [q \in 1..Len(recs) |->
        IF \E k \in DOMAIN map : map[k] = q
        THEN [recs[q] EXCEPT !.state = "undefined", !.lastReset = "config"]
        ELSE recs[q]]

\* The configuration change events after initialization: whether blame.ignoreWhitespace
\* or advanced.caching.enabled changed, whether advanced.blame.delayAfterEdit
\* changed, and its value then.
ConfigEvents ==
    {e \in [cache : BOOLEAN, delayAfterEdit : BOOLEAN, delay : DelayChoices] :
        /\ e.cache \/ e.delayAfterEdit
        /\ ~e.delayAfterEdit => e.delay = 0}

\* onConfigurationChanged(e), not initializing: the cached state is reset;
\* when the delay changed the field is cleared, and the debounced function
\* it held keeps its timer.
onConfigurationChanged(e) ==
    /\ HostEvent
    /\ _disposable
    /\ records' = IF e.cache THEN resetAll(records, _documentMap) ELSE records
    /\ IF e.delayAfterEdit
       THEN /\ _dirtyIdleTriggerDelay' = e.delay
            /\ _dirtyIdleTriggeredDebounced' = NoDebounce
            /\ orphanedIdle' = IF DebouncePending(_dirtyIdleTriggeredDebounced)
                               THEN orphanedIdle \cup
                                    {[remaining |-> _dirtyIdleTriggeredDebounced.remaining,
                                      args |-> _dirtyIdleTriggeredDebounced.args]}
                               ELSE orphanedIdle
       ELSE UNCHANGED <<_dirtyIdleTriggerDelay, _dirtyIdleTriggeredDebounced, orphanedIdle>>
    /\ UNCHANGED <<_documentMap, _dirtyStateChangedDebounced, textChangedDebounced,
                   activeEditorDebounced, immediates, initWaiters, lastNote,
                   lastIdle, sinceCleanSched>>
    /\ UNCHANGED <<annVars, dbgVars, cmdVars, expVars, apiVars, hostState, ctlVars>>

\* advanced.blame.delayAfterEdit alone changes
ConfigurationChanged == \E e \in ConfigEvents : ~e.cache /\ onConfigurationChanged(e)

\* blame.ignoreWhitespace or advanced.caching.enabled changes
CacheConfigurationChanged == \E e \in ConfigEvents : e.cache /\ onConfigurationChanged(e)

\* The Git service caches what it computed for a tracked document: doc.state = ...
CacheState ==
    \E d \in Editors :
        /\ HostEvent
        /\ _documentMap[d] # 0
        /\ records[_documentMap[d]].state = "undefined"
        /\ records' = [records EXCEPT ![_documentMap[d]].state = "cached"]
        /\ UNCHANGED <<_documentMap, _dirtyIdleTriggerDelay, _dirtyIdleTriggeredDebounced,
                       _dirtyStateChangedDebounced, orphanedIdle, textChangedDebounced,
                       activeEditorDebounced, immediates, initWaiters, lastNote,
                       lastIdle, sinceCleanSched>>
        /\ UNCHANGED <<annVars, dbgVars, cmdVars, expVars, apiVars, hostState, ctlVars>>

\* onActiveTextEditorChanged(editor), run by its 0ms debounce
onActiveTextEditorChanged(editor) ==
    IF editor = Undefined \/ _documentMap[EditorDocument(editor)] # 0
    THEN UNCHANGED <<_documentMap, records>>
    ELSE LET added == addCore(_documentMap, records, EditorDocument(editor)) IN
         /\ _documentMap' = added.map
         /\ records' = added.records

ActiveTextEditorChangedTimer ==
    /\ DebounceDue(activeEditorDebounced)
    /\ activeEditorDebounced' = DebounceInvoked(activeEditorDebounced)
    /\ onActiveTextEditorChanged(activeEditorDebounced.args.editor)
    /\ UNCHANGED <<_dirtyIdleTriggerDelay, _dirtyIdleTriggeredDebounced,
                   _dirtyStateChangedDebounced, orphanedIdle, textChangedDebounced,
                   immediates, initWaiters, lastNote, lastIdle, sinceCleanSched>>
    /\ UNCHANGED <<annVars, dbgVars, cmdVars, expVars, apiVars, hostVars, ctlVars>>

\* Variant of onTextDocumentClosed that leaves the entry under the key behind.
ClosedKeepingKey(d) ==
    LET r == _documentMap[d] IN
    IF r = 0 THEN UNCHANGED <<_documentMap, records>>
    ELSE /\ records' = [records EXCEPT ![r].disposed = TRUE]
         /\ _documentMap' = [_documentMap EXCEPT ![d] = 0]

\* onTextDocumentClosed(document)
onTextDocumentClosed(d) ==
    LET r == _documentMap[d] IN
    IF r = 0 THEN UNCHANGED <<_documentMap, records>>
    ELSE /\ records' = [records EXCEPT ![r].disposed = TRUE]
         /\ _documentMap' = [_documentMap EXCEPT ![d] = 0, ![toKey(records[r].document)] = 0]

\* isActiveDocument(document) (constants.ts): the active editor shows the document
isActiveDocument(d) ==
    activeTextEditor # Undefined /\ EditorDocument(activeTextEditor) = d

\* Variant of onTextDocumentSaved that starts tracking any saved document.
SavedTrackingAlways(d) ==
    LET r == _documentMap[d] IN
    IF r # 0
    THEN /\ records' = [records EXCEPT ![r].forceBlameChange = TRUE]
         /\ UNCHANGED _documentMap
    ELSE LET added == addCore(_documentMap, records, d) IN
         /\ _documentMap' = added.map
         /\ records' = added.records

\* onTextDocumentSaved(document)
onTextDocumentSaved(d) ==
    LET r == _documentMap[d] IN
    IF r # 0
    THEN /\ records' = [records EXCEPT ![r].forceBlameChange = TRUE]
         /\ UNCHANGED _documentMap
    ELSE IF isActiveDocument(d)
         THEN LET added == addCore(_documentMap, records, d) IN
              /\ _documentMap' = added.map
              /\ records' = added.records
         ELSE UNCHANGED <<_documentMap, records>>

(***************************************************************************)
(* Events of the host                                                      *)
(***************************************************************************)
\* The user switches editors: window.activeTextEditor changes and the
\* debounced onDidChangeActiveTextEditor listener is called.
HostActiveEditorChanged ==
    \E ed \in (Editors \cup {Undefined}) \ {activeTextEditor} :
        /\ HostEvent
        /\ _disposable
        /\ activeTextEditor' = ed
        /\ activeEditorDebounced' = DebounceCall(activeEditorDebounced, [editor |-> ed])
        /\ UNCHANGED <<isDirty, _documentMap, records, _dirtyIdleTriggerDelay,
                       _dirtyIdleTriggeredDebounced, _dirtyStateChangedDebounced, orphanedIdle,
                       textChangedDebounced, immediates, initWaiters, lastNote,
                       lastIdle, sinceCleanSched>>
        /\ UNCHANGED <<annVars, dbgVars, cmdVars, expVars, apiVars, ctlVars>>

\* The record of document d has its force flag set.
forced(d) == _documentMap[d] # 0 /\ records[_documentMap[d]].force

\* An edit: the document is dirty afterwards; the debounced
\* onDidChangeTextDocument listener is called (the waiting call is tagged
\* "forced" when the edit is made while the record's force flag is set).
HostEdit ==
    \E d \in Docs :
        /\ HostEvent
        /\ _disposable
        /\ isDirty' = [isDirty EXCEPT ![d] = Scheme(d) = "file"]
        /\ textChangedDebounced' =
               [DebounceCall(textChangedDebounced, [document |-> d]) EXCEPT
                   !.tag = IF forced(d) THEN "forced" ELSE "fresh"]
        /\ UNCHANGED <<activeTextEditor, _documentMap, records, _dirtyIdleTriggerDelay,
                       _dirtyIdleTriggeredDebounced, _dirtyStateChangedDebounced, orphanedIdle,
                       activeEditorDebounced, immediates, initWaiters, lastNote,
                       lastIdle, sinceCleanSched>>
        /\ UNCHANGED <<annVars, dbgVars, cmdVars, expVars, apiVars, ctlVars>>

\* The output channel is written to while the change of a file waits in the
\* 50ms debounce: the debounced onDidChangeTextDocument listener is called
\* with the change of the output document.
OutputAppended ==
    /\ _disposable
    /\ DebouncePending(textChangedDebounced)
    /\ Scheme(textChangedDebounced.args.document) = "file"
    /\ textChangedDebounced' = DebounceCall(textChangedDebounced, [document |-> "o"])
    /\ UNCHANGED <<_documentMap, records, _dirtyIdleTriggerDelay,
                   _dirtyIdleTriggeredDebounced, _dirtyStateChangedDebounced, orphanedIdle,
                   activeEditorDebounced, immediates, initWaiters, lastNote,
                   lastIdle, sinceCleanSched>>
    /\ UNCHANGED <<annVars, dbgVars, cmdVars, expVars, apiVars, hostVars, ctlVars>>

\* A dirty document becomes clean, by a save (onDidSaveTextDocument is
\* delivered as well) or by undoing back to the saved text.
HostCleanOf(d, saved) ==
    /\ HostEvent
    /\ _disposable
    /\ isDirty[d]
    /\ isDirty' = [isDirty EXCEPT ![d] = FALSE]
    /\ textChangedDebounced' = DebounceCall(textChangedDebounced, [document |-> d])
    /\ IF saved THEN onTextDocumentSaved(d) ELSE UNCHANGED <<_documentMap, records>>
    /\ UNCHANGED <<activeTextEditor, _dirtyIdleTriggerDelay, _dirtyIdleTriggeredDebounced,
                   _dirtyStateChangedDebounced, orphanedIdle, activeEditorDebounced,
                   immediates, initWaiters, lastNote, lastIdle,
                   sinceCleanSched>>
    /\ UNCHANGED <<annVars, dbgVars, cmdVars, expVars, apiVars, ctlVars>>

HostClean == \E d \in Editors, saved \in BOOLEAN : HostCleanOf(d, saved)

\* A document that no editor shows is closed: onDidCloseTextDocument(d).
HostCloseOf(d) ==
    /\ HostEvent
    /\ _disposable
    /\ activeTextEditor = Undefined \/ EditorDocument(activeTextEditor) # d
    /\ isDirty' = [isDirty EXCEPT ![d] = FALSE]
    /\ onTextDocumentClosed(d)
    /\ UNCHANGED <<activeTextEditor, _dirtyIdleTriggerDelay, _dirtyIdleTriggeredDebounced,
                   _dirtyStateChangedDebounced, orphanedIdle, textChangedDebounced,
                   activeEditorDebounced, immediates, initWaiters, lastNote,
                   lastIdle, sinceCleanSched>>
    /\ UNCHANGED <<annVars, dbgVars, cmdVars, expVars, apiVars, ctlVars>>

HostClose == \E d \in Editors : HostCloseOf(d)

\* CurrentLineController.updateBlame on a dirty document:
\* (await Container.tracker.get(editor.document)).setForceDirtyStateChangeOnNextDocumentChange()
SetForceDirtyStateChange ==
    \E d \in Editors :
        /\ HostEvent
        /\ isDirty[d]
        /\ _documentMap[d] # 0
        /\ records[_documentMap[d]].initialized
        /\ ~records[_documentMap[d]].force
        /\ records' = [records EXCEPT ![_documentMap[d]].force = TRUE]
        /\ UNCHANGED <<_documentMap, _dirtyIdleTriggerDelay, _dirtyIdleTriggeredDebounced,
                       _dirtyStateChangedDebounced, orphanedIdle, textChangedDebounced,
                       activeEditorDebounced, immediates, initWaiters, lastNote,
                       lastIdle, sinceCleanSched>>
        /\ UNCHANGED <<annVars, dbgVars, cmdVars, expVars, apiVars, hostState, ctlVars>>

(***************************************************************************)
(* The tracker's API, called with a TextDocument or a string key           *)
(***************************************************************************)
apiUnchanged == <<_dirtyIdleTriggerDelay, _dirtyIdleTriggeredDebounced,
                  _dirtyStateChangedDebounced, orphanedIdle, textChangedDebounced,
                  activeEditorDebounced, immediates, initWaiters, lastNote,
                  lastIdle, sinceCleanSched>>

\* What workspace.openTextDocument does with the versioned path of a GitUri:
\* it opens the document or fails with one of these messages.
OpenFailures == {"Error: File not found (g)", "Error: cannot open g"}
OpenResults == {"opened"} \cup OpenFailures

\* Variant of the catch clause that swallows every failure.
SwallowsAll(ex) == FALSE

\* if (!ex.toString().includes('File not found')) throw ex
rethrows(ex) == ex # "Error: File not found (g)"

\* new MissingRevisionTextDocument(gitUri): an object that did not exist before
MissingRevisionTextDocument(recs) ==
    CHOOSE p \in Placeholders : \A q \in 1..Len(recs) : recs[q].document # p

\* The document _add goes on with: its argument, or what opening the
\* versioned path of the GitUri gave.
documentOf(x, res, recs) ==
    IF x \notin GitUris THEN x
    ELSE IF res = "opened" THEN "v"
    ELSE MissingRevisionTextDocument(recs)

\* _add(documentOrId), called by op; openTextDocument starts when the call
\* is made and changes nothing of the tracker, so the call is modelled from
\* the moment the open has finished with res.
_add(op, x, res) ==
    IF x \in GitUris /\ res \in OpenFailures /\ rethrows(res)
    THEN /\ lastReturns' = {Thrown(op, x, _documentMap)}
         /\ UNCHANGED <<_documentMap, records, apiCalls>>
    ELSE LET added == addCore(_documentMap, records, documentOf(x, res, records)) IN
         /\ _documentMap' = added.map
         /\ records' = added.records
         /\ awaitThenReturn(Call(op, x, added.doc, TRUE), added.map, added.records)

\* The arguments of add and getOrAdd with what opening them gives: a
\* TextDocument is not opened.
AddInputs == (Editors \X {"opened"}) \cup (GitUris \X OpenResults)

\* add(documentOrId)
add(x, res) ==
    /\ HostEvent
    /\ _add("add", x, res)
    /\ UNCHANGED <<apiUnchanged, _disposable, adding>>
    /\ UNCHANGED <<annVars, dbgVars, cmdVars, expVars, hostState, ctlVars>>

\* add(document)
Add == \E d \in Editors : add(d, "opened")

\* add(uri) with a GitUri
AddUri == \E g \in GitUris, res \in OpenResults : add(g, res)

\* _get(documentOrId): the lookup
_get(k) == _documentMap[lookupKey(k)]

\* has(key): whether the map holds an entry under the document or the key
has(k) == _documentMap[k] # 0

\* get(document), get(fileName) and get(uri)
get(x) ==
    /\ HostEvent
    /\ IF _get(x) = 0
       THEN /\ lastReturns' = {ReturnOf(Call("get", x, 0, FALSE), _documentMap, records)}
            /\ UNCHANGED apiCalls
       ELSE awaitThenReturn(Call("get", x, _get(x), FALSE), _documentMap, records)
    /\ UNCHANGED <<_documentMap, records, apiUnchanged, _disposable, adding>>
    /\ UNCHANGED <<annVars, dbgVars, cmdVars, expVars, hostState, ctlVars>>

Get == \E x \in Editors \cup Keys \cup GitUris : get(x)

\* getOrAdd(documentOrId)
getOrAdd(x, res) ==
    /\ HostEvent
    /\ IF _get(x) = 0
       THEN _add("getOrAdd", x, res)
       ELSE /\ awaitThenReturn(Call("getOrAdd", x, _get(x), FALSE), _documentMap, records)
            /\ UNCHANGED <<_documentMap, records>>
    /\ UNCHANGED <<apiUnchanged, _disposable, adding>>
    /\ UNCHANGED <<annVars, dbgVars, cmdVars, expVars, hostState, ctlVars>>

GetOrAdd == \E i \in AddInputs : getOrAdd(i[1], i[2])

\* getOrAdd(documentOrId) up to its first suspension.  `await this._get(...)`
\* returns the record the map holds, after its initialization; when the map
\* holds none the call goes on to _add only after the await (and, for a Uri,
\* after openTextDocument), and other calls run in between.
GetOrAddCalled ==
    \E x \in Editors \cup GitUris :
        /\ HostEvent
        /\ IF _get(x) = 0
           THEN /\ adding' = Append(adding, x)
                /\ UNCHANGED <<apiCalls, lastReturns>>
           ELSE /\ awaitThenReturn(Call("getOrAdd", x, _get(x), FALSE), _documentMap, records)
                /\ UNCHANGED adding
        /\ UNCHANGED <<_documentMap, records, apiUnchanged, _disposable>>
        /\ UNCHANGED <<annVars, dbgVars, cmdVars, expVars, hostState, ctlVars>>

\* A getOrAdd that found no record resumes: `doc = await this._add(documentOrId)`
GetOrAddResumed ==
    \E i \in 1..Len(adding), res \in OpenResults :
        /\ adding[i] \in Editors => res = "opened"
        /\ adding' = SubSeq(adding, 1, i - 1) \o SubSeq(adding, i + 1, Len(adding))
        /\ _add("getOrAdd", adding[i], res)
        /\ UNCHANGED <<apiUnchanged, _disposable>>
        /\ UNCHANGED <<annVars, dbgVars, cmdVars, expVars, hostVars, ctlVars>>

\* Variant of clear that only empties the map.
ClearWithoutDispose ==
    /\ records' = records
    /\ _documentMap' = [k \in DOMAIN _documentMap |-> 0]

\* DocumentTracker.clear(): every record the map holds is disposed, the map is emptied
trackerClear ==
    /\ records' = [q \in 1..Len(records) |->
                     IF \E k \in DOMAIN _documentMap : _documentMap[k] = q
                     THEN [records[q] EXCEPT !.disposed = TRUE]
                     ELSE records[q]]
    /\ _documentMap' = [k \in DOMAIN _documentMap |-> 0]

Clear ==
    /\ HostEvent
    /\ trackerClear
    /\ UNCHANGED <<apiUnchanged, apiVars>>
    /\ UNCHANGED <<annVars, dbgVars, cmdVars, expVars, hostState, ctlVars>>

\* dispose(): the subscriptions are released, then clear()
Dispose ==
    /\ HostEvent
    /\ _disposable' = FALSE
    /\ trackerClear
    /\ UNCHANGED <<apiUnchanged, apiCalls, lastReturns, adding>>
    /\ UNCHANGED <<annVars, dbgVars, cmdVars, expVars, hostState, ctlVars>>

(***************************************************************************)
(* CurrentLineController                                                   *)
(***************************************************************************)
LineNumbers == {5, 9}

UpdateBlameWait == 50

NoCommit == [document |-> Undefined, line |-> 0]

\* What Container.git.getBlameForLine / getBlameForFile attribute line l of d to.
CommitOf(d, l) == [document |-> d, line |-> l]

NoLineState == [l \in LineNumbers |-> NoCommit]

\* blameLines[0]: the first of the lines the update was called with
FirstLine(ls) == CHOOSE l \in ls : \A m \in ls : l <= m

\* TrackedDocument.isBlameable, taken as: the document is a file under version
\* control (blameCfg.untracked holds the files Git does not track).
isBlameable(d) == Scheme(d) = "file" /\ d \notin blameCfg.untracked

\* getBlameAnnotationState().enabled
AnnotationsEnabled ==
    IF _blameAnnotationState = "undefined" THEN blameCfg.currentLine
    ELSE enabled(_enabled, _suspendReason)

\* The controller's fields as one value, for the helpers below.
Ctl == [editor |-> _editor, hover |-> _hoverProviderDisposable, lineState |-> lineState,
        deb |-> _updateBlameDebounced, statusBar |-> statusBarText,
        decorations |-> decorations, refreshing |-> refreshing, inFlight |-> inFlight]

SetCtl(c) ==
    /\ _editor' = c.editor
    /\ _hoverProviderDisposable' = c.hover
    /\ lineState' = c.lineState
    /\ _updateBlameDebounced' = c.deb
    /\ statusBarText' = c.statusBar
    /\ decorations' = c.decorations
    /\ refreshing' = c.refreshing
    /\ inFlight' = c.inFlight

\* clearAnnotations(editor)
clearAnnotations(c, ed) ==
    IF ed = Undefined THEN c ELSE [c EXCEPT !.decorations[ed] = {}]

\* A clear that only removes the decorations.
ClearAnnotationsOnly(c, ed, reason) == clearAnnotations(c, ed)

\* clear(editor, reason)
clear(c, ed, reason) ==
    LET c1 == IF c.editor # ed /\ c.editor # Undefined THEN clearAnnotations(c, c.editor)
              ELSE c
        c2 == clearAnnotations(c1, ed) IN
    [c2 EXCEPT !.hover = FALSE,
               !.lineState = NoLineState,
               !.statusBar.shown = IF reason # "lines" THEN FALSE ELSE c2.statusBar.shown]

\* refresh after `await Container.tracker.getOrAdd(editor.document)`; ls is
\* this._lineTracker.lines as read then.
refreshResumed(c, ed, full, ls) ==
    IF isBlameable(EditorDocument(ed))
    THEN LET deb == IF c.deb.state = "undefined" THEN debounce(UpdateBlameWait) ELSE c.deb IN
         [c EXCEPT !.hover = IF blameCfg.hovers /\ (full \/ ~c.hover) THEN TRUE ELSE c.hover,
                   !.deb = DebounceCall(deb, [lines |-> ls, editor |-> ed,
                                              document |-> EditorDocument(ed)])]
    ELSE clear(c, ed, "")

\* A refresh that goes on to the blame update whatever is enabled.
RefreshIgnoringState(c, ed, full, ls, annOn) ==
    LET switch == c.editor # ed
        c1 == IF switch THEN [clearAnnotations(c, c.editor) EXCEPT !.editor = ed]
              ELSE c IN
    [c |-> c1, wants |-> TRUE, full |-> full \/ switch]

\* A refresh that takes the new editor and leaves the decorations of the old.
RefreshKeepingDecorations(c, ed, full, ls, annOn) ==
    LET c1 == [c EXCEPT !.editor = ed] IN
    IF annOn \/ blameCfg.statusBar \/ blameCfg.hovers
    THEN [c |-> c1, wants |-> TRUE, full |-> full \/ c.editor # ed]
    ELSE [c |-> clear(c1, ed, ""), wants |-> FALSE, full |-> full \/ c.editor # ed]

\* refresh(editor, options) from its third statement on, for an editor with
\* active lines, up to the call of tracker.getOrAdd.
refreshDefined(c, ed, full, ls, annOn) ==
    LET switch == c.editor # ed
        c1 == IF switch THEN [clearAnnotations(c, c.editor) EXCEPT !.editor = ed]
              ELSE c IN
    IF annOn \/ blameCfg.statusBar \/ blameCfg.hovers
    THEN [c |-> c1, wants |-> TRUE, full |-> full \/ switch]
    ELSE [c |-> clear(c1, ed, ""), wants |-> FALSE, full |-> full \/ switch]

\* A refresh that returns as soon as it is given no editor.
RefreshSkippingUndefined(c, ed, full, ls, annOn) ==
    IF ed = Undefined THEN [c |-> c, wants |-> FALSE, full |-> full]
    ELSE IF ls = {}
         THEN [c |-> clear(c, c.editor, ""), wants |-> FALSE, full |-> full]
         ELSE refreshDefined(c, ed, full, ls, annOn)

\* refresh(editor, options), up to the call of tracker.getOrAdd; wants = TRUE
\* when that call is reached.  ls is this._lineTracker.lines, annOn is
\* getBlameAnnotationState().enabled.
refresh(c, ed, full, ls, annOn) ==
    IF ed = Undefined /\ c.editor = Undefined THEN [c |-> c, wants |-> FALSE, full |-> full]
    ELSE IF ed = Undefined \/ ls = {}
         THEN [c |-> clear(c, c.editor, ""), wants |-> FALSE, full |-> full]
         ELSE refreshDefined(c, ed, full, ls, annOn)

\* refresh(editor, options) with its getOrAdd: the controller and the tracker's
\* map afterwards; the rest of refresh runs at once when the record is
\* initialized and is queued in refreshing otherwise.
DoRefresh(c0, ed, full, ls, annOn) ==
    LET r1 == refresh(c0, ed, full, ls, annOn) IN
    IF ~r1.wants
    THEN [c |-> r1.c, map |-> _documentMap, records |-> records]
    ELSE LET d == EditorDocument(ed)
             found == _get(d)
             added == IF found # 0
                      THEN [map |-> _documentMap, records |-> records, doc |-> found]
                      ELSE addCore(_documentMap, records, d) IN
         [c |-> IF found # 0 /\ records[found].initialized
                THEN refreshResumed(r1.c, ed, r1.full, ls)
                ELSE [r1.c EXCEPT !.refreshing =
                          Append(@, [editor |-> ed, full |-> r1.full, rec |-> added.doc])],
          map |-> added.map, records |-> added.records]

\* The line tracker reports new active lines (or a new active editor):
\* onActiveLinesChanged(e)
ActiveLinesChanged ==
    \E ed \in Editors \cup {Undefined}, ls \in SUBSET LineNumbers, pending \in BOOLEAN :
        /\ HostEvent
        /\ ed # activeTextEditor \/ ls # lines
        /\ ed = Undefined => ls = {}
        /\ activeTextEditor' = ed
        /\ lines' = ls
        /\ IF ~pending /\ ls # {}
           THEN LET out == DoRefresh(Ctl, ed, FALSE, ls, AnnotationsEnabled) IN
                /\ SetCtl(out.c)
                /\ _documentMap' = out.map
                /\ records' = out.records
           ELSE /\ SetCtl(clear(Ctl, ed,
                                IF blameCfg.reduceFlicker /\ ed = activeTextEditor /\ ls # {}
                                THEN "lines" ELSE ""))
                /\ UNCHANGED <<_documentMap, records>>
        /\ UNCHANGED <<isDirty, _blameAnnotationState, blameCfg, lastBlame>>
        /\ UNCHANGED <<_dirtyIdleTriggerDelay, _dirtyIdleTriggeredDebounced,
                       _dirtyStateChangedDebounced, orphanedIdle, textChangedDebounced,
                       activeEditorDebounced, immediates, initWaiters, lastNote,
                       lastIdle, sinceCleanSched>>
        /\ UNCHANGED <<annVars, dbgVars, cmdVars, expVars, apiVars>>

\* The file annotations of an editor were toggled: onFileAnnotationsToggled()
FileAnnotationsToggled ==
    LET out == DoRefresh(Ctl, activeTextEditor, FALSE, lines, AnnotationsEnabled) IN
    /\ HostEvent
    /\ SetCtl(out.c)
    /\ _documentMap' = out.map
    /\ records' = out.records
    /\ lastRefresh' = [editor |-> activeTextEditor, by |-> "toggled", doc |-> Undefined,
                        was |-> _suspendReason]
    /\ UNCHANGED <<activeTextEditor, isDirty, lines, _blameAnnotationState, blameCfg,
                   lastBlame>>
    /\ UNCHANGED <<_dirtyIdleTriggerDelay, _dirtyIdleTriggeredDebounced,
                   _dirtyStateChangedDebounced, orphanedIdle, textChangedDebounced,
                   activeEditorDebounced, immediates, initWaiters, lastNote,
                   lastIdle, sinceCleanSched>>
    /\ UNCHANGED <<annVars, apiVars, cmdVars, expVars, _debugSessionEndDisposable, debugHost>>

\* A refresh whose getOrAdd has resolved goes on.
RefreshResumed ==
    /\ refreshing # <<>>
    /\ LET w == Head(refreshing) IN
       /\ records[w.rec].initialized
       /\ SetCtl(refreshResumed([Ctl EXCEPT !.refreshing = Tail(refreshing)],
                                w.editor, w.full, lines))
    /\ UNCHANGED <<lines, _blameAnnotationState, blameCfg, lastBlame>>
    /\ UNCHANGED <<annVars, dbgVars, cmdVars, expVars, apiVars, hostVars, trkVars>>

\* updateBlame(lines, editor, trackedDocument), run by its 50ms debounce, up
\* to its Git-data fetch.
UpdateBlameTimer ==
    /\ DebounceDue(_updateBlameDebounced)
    /\ LET call == _updateBlameDebounced.args
           c1 == [Ctl EXCEPT !.deb = DebounceInvoked(_updateBlameDebounced),
                             !.lineState = NoLineState] IN
       IF ~(call.lines \subseteq lines) \/ call.lines = {}
       THEN SetCtl(c1)
       ELSE SetCtl([c1 EXCEPT !.inFlight = @ \cup {call}])
    /\ UNCHANGED <<lines, _blameAnnotationState, blameCfg, lastBlame>>
    /\ UNCHANGED <<annVars, dbgVars, cmdVars, expVars, apiVars, hostVars, trkVars>>

\* updateStatusBar(commit, editor)
updateStatusBar(c, commit) ==
    IF ~blameCfg.statusBar THEN c
    ELSE [c EXCEPT !.statusBar = [text |-> commit, shown |-> TRUE]]

\* updateTrailingAnnotations(lines, editor); annOn is getBlameAnnotationState().enabled
updateTrailingAnnotations(c, ls, ed, annOn) ==
    IF ~annOn THEN clearAnnotations(c, ed)
    ELSE [c EXCEPT !.decorations[ed] = ls]

\* The check after the await of updateBlame: still on the same lines,
\* blameable and not pending.
StillCurrent(call, c) ==
    /\ call.lines \subseteq lines
    /\ isBlameable(call.document)
    /\ ~DebouncePending(c.deb)

\* updateBlame after its Git-data fetch returned a blame: the controller
\* afterwards, and what of the result was applied.
updateBlameResumed(c, call, annOn) ==
    LET current == StillCurrent(call, c) IN
    IF current /\ ~annOn /\ ~blameCfg.statusBar
    THEN [c |-> clear(c, call.editor, ""), setState |-> FALSE, statusBar |-> FALSE,
          decorated |-> FALSE, force |-> FALSE]
    ELSE LET c1 == IF current /\ ~annOn THEN clearAnnotations(c, call.editor) ELSE c
             l == FirstLine(call.lines)
             commit == CommitOf(call.document, l)
             c2 == [c1 EXCEPT !.lineState[l] = commit]
             c3 == updateStatusBar(c2, commit)
             c4 == updateTrailingAnnotations(c3, call.lines, call.editor, annOn) IN
         [c |-> c4, setState |-> TRUE, statusBar |-> blameCfg.statusBar,
          decorated |-> annOn, force |-> isDirty[call.document]]

\* A Git-data fetch of updateBlame returns (found = FALSE: no result).
BlameFetched ==
    \E call \in inFlight, found \in BOOLEAN :
        LET c0 == [Ctl EXCEPT !.inFlight = @ \ {call}]
            out == updateBlameResumed(c0, call, AnnotationsEnabled)
            r == _documentMap[call.document] IN
        /\ IF found THEN SetCtl(out.c) ELSE SetCtl(clear(c0, call.editor, ""))
        /\ records' = IF found /\ out.force /\ r # 0 THEN [records EXCEPT ![r].force = TRUE]
                      ELSE records
        /\ lastBlame' = [editor |-> call.editor,
                         found |-> found,
                         linesChanged |-> ~(call.lines \subseteq lines),
                         pending |-> DebouncePending(_updateBlameDebounced),
                         setState |-> found /\ out.setState,
                         statusBar |-> found /\ out.statusBar,
                         decorated |-> found /\ out.decorated]
        /\ UNCHANGED <<lines, _blameAnnotationState, blameCfg>>
        /\ UNCHANGED <<_documentMap, _dirtyIdleTriggerDelay, _dirtyIdleTriggeredDebounced,
                       _dirtyStateChangedDebounced, orphanedIdle, textChangedDebounced,
                       activeEditorDebounced, immediates, initWaiters, lastNote,
                       lastIdle, sinceCleanSched>>
        /\ UNCHANGED <<annVars, dbgVars, cmdVars, expVars, apiVars, hostVars>>

\* showAnnotations(editor) and toggleAnnotations(editor) with the active
\* editor: setBlameAnnotationState(enabled, editor)
SetBlameAnnotationState ==
    \E en \in {TRUE, ~AnnotationsEnabled} :
        LET out == IF _blameAnnotationState = "undefined"
                   THEN [enabled |-> en, reason |-> Undefined, ret |-> TRUE]
                   ELSE reset(_enabled, _suspendReason, en)
            done == IF activeTextEditor = Undefined \/ ~out.ret
                    THEN [c |-> Ctl, map |-> _documentMap, records |-> records]
                    ELSE DoRefresh(Ctl, activeTextEditor, FALSE, lines,
                                   enabled(out.enabled, out.reason)) IN
        /\ HostEvent
        /\ _blameAnnotationState' = "set"
        /\ _enabled' = out.enabled
        /\ _suspendReason' = out.reason
        /\ SetCtl(done.c)
        /\ _documentMap' = done.map
        /\ records' = done.records
        /\ UNCHANGED <<calls, lines, blameCfg, lastBlame>>
        /\ UNCHANGED <<_dirtyIdleTriggerDelay, _dirtyIdleTriggeredDebounced,
                       _dirtyStateChangedDebounced, orphanedIdle, textChangedDebounced,
                       activeEditorDebounced, immediates, initWaiters, lastNote,
                       lastIdle, sinceCleanSched>>
        /\ UNCHANGED <<hostState, apiVars, dbgVars, cmdVars, expVars>>

\* The text of a document is edited or saved while the controller is watched
\* on its own: only TextDocument.isDirty matters to updateBlame.
DocumentDirtyChanged ==
    \E d \in Editors :
        /\ HostEvent
        /\ activeTextEditor = d
        /\ isDirty' = [isDirty EXCEPT ![d] = ~isDirty[d]]
        /\ UNCHANGED <<activeTextEditor, annVars, apiVars, dbgVars, cmdVars, expVars, trkVars, ctlVars>>

(***************************************************************************)
(* CurrentLineController: suspending and resuming the annotations          *)
(***************************************************************************)
MaxSessions == 2
SizeThreshold == 2

\* TextDocument.lineCount: the file b is over the threshold, the file a is not
lineCount(d) == IF d = "b" THEN SizeThreshold + 1 ELSE SizeThreshold

\* No refresh; otherwise the editor refreshed, the handler, the document of
\* its event and the suspension it found.
NoRefresh == [editor |-> Undefined, by |-> "", doc |-> Undefined, was |-> Undefined]

\* suspendBlameAnnotations(reason, editor): the annotation state afterwards
\* and whether refresh(editor) is called
suspendBlameAnnotations(reason, ed) ==
    IF _blameAnnotationState = "undefined" /\ ~blameCfg.currentLine
    THEN [state |-> _blameAnnotationState, enabled |-> _enabled, reason |-> _suspendReason,
          refresh |-> FALSE]
    ELSE LET out == IF _blameAnnotationState = "undefined"
                    THEN suspend(blameCfg.currentLine, Undefined, reason)
                    ELSE suspend(_enabled, _suspendReason, reason) IN
         [state |-> "set", enabled |-> out.enabled, reason |-> out.reason,
          refresh |-> ed # Undefined /\ out.ret]

\* Variant of resumeBlameAnnotations that ignores options.force.
ResumeUnforced(reason, ed, force) ==
    IF _blameAnnotationState = "undefined" \/ ~suspended(_suspendReason)
    THEN [state |-> _blameAnnotationState, enabled |-> _enabled, reason |-> _suspendReason,
          refresh |-> FALSE]
    ELSE LET out == resume(_enabled, _suspendReason, reason) IN
         [state |-> "set", enabled |-> out.enabled, reason |-> out.reason,
          refresh |-> ed # Undefined /\ out.ret]

\* resumeBlameAnnotations(reason, editor, { force })
resumeBlameAnnotations(reason, ed, force) ==
    IF ~force /\ (_blameAnnotationState = "undefined" \/ ~suspended(_suspendReason))
    THEN [state |-> _blameAnnotationState, enabled |-> _enabled, reason |-> _suspendReason,
          refresh |-> FALSE]
    ELSE IF _blameAnnotationState = "undefined"
         THEN [state |-> _blameAnnotationState, enabled |-> _enabled,
               reason |-> _suspendReason, refresh |-> ed # Undefined /\ force]
         ELSE LET out == resume(_enabled, _suspendReason, reason) IN
              [state |-> "set", enabled |-> out.enabled, reason |-> out.reason,
               refresh |-> ed # Undefined /\ (force \/ out.ret)]

\* maxLines > 0 && e.document.lineCount > maxLines
overThreshold(d) ==
    blameCfg.sizeThresholdAfterEdit > 0 /\ lineCount(d) > blameCfg.sizeThresholdAfterEdit

\* Variant of onDirtyStateChanged's clean branch that applies the size
\* threshold of onDirtyIdleTriggered.
ResumeCleanUnderThreshold(d) ==
    IF overThreshold(d)
    THEN [state |-> _blameAnnotationState, enabled |-> _enabled, reason |-> _suspendReason,
          refresh |-> FALSE]
    ELSE resumeBlameAnnotations("dirty", activeTextEditor, TRUE)

\* onDirtyStateChanged(e), e.dirty false
resumeClean(d) == resumeBlameAnnotations("dirty", activeTextEditor, TRUE)

\* Variant of onDirtyIdleTriggered without the size threshold.
ResumeIdleIgnoringThreshold(d) == resumeBlameAnnotations("dirty", activeTextEditor, FALSE)

\* onDirtyIdleTriggered(e)
resumeIdle(d) ==
    IF overThreshold(d)
    THEN [state |-> _blameAnnotationState, enabled |-> _enabled, reason |-> _suspendReason,
          refresh |-> FALSE]
    ELSE resumeBlameAnnotations("dirty", activeTextEditor, FALSE)

\* The handler ends: the annotation state is stored and, when asked for,
\* refresh(window.activeTextEditor) runs up to its getOrAdd.
Resumed(out, by, d) ==
    LET annOn == IF out.state = "undefined" THEN blameCfg.currentLine
                 ELSE enabled(out.enabled, out.reason)
        done == IF out.refresh
                THEN DoRefresh(Ctl, activeTextEditor, FALSE, lines, annOn)
                ELSE [c |-> Ctl, map |-> _documentMap, records |-> records] IN
    /\ _blameAnnotationState' = out.state
    /\ _enabled' = out.enabled
    /\ _suspendReason' = out.reason
    /\ SetCtl(done.c)
    /\ _documentMap' = done.map
    /\ records' = done.records
    /\ lastRefresh' = IF out.refresh
                      THEN [editor |-> activeTextEditor, by |-> by, doc |-> d,
                            was |-> _suspendReason]
                      ELSE NoRefresh
    /\ UNCHANGED <<calls, lines, blameCfg, lastBlame, hostState, apiVars, cmdVars, expVars>>
    /\ UNCHANGED <<_dirtyIdleTriggerDelay, _dirtyIdleTriggeredDebounced,
                   _dirtyStateChangedDebounced, orphanedIdle, textChangedDebounced,
                   activeEditorDebounced, immediates, initWaiters, lastNote,
                   lastIdle, sinceCleanSched>>

\* onDebugSessionEnded releases the listener the field holds
listenersAfterEnd ==
    IF _debugSessionEndDisposable THEN debugHost.listeners - 1 ELSE debugHost.listeners

\* debug.onDidStartDebugSession: onDebugSessionStarted().  The value tested is
\* the promise that the async suspendBlameAnnotations returns, so the listener
\* is subscribed whatever the promise resolves to; the field is overwritten.
DebugSessionStarted ==
    /\ debugHost.started < MaxSessions
    /\ debugHost' = [started |-> debugHost.started + 1,
                     running |-> debugHost.running + 1,
                     listeners |-> debugHost.listeners + 1]
    /\ _debugSessionEndDisposable' = TRUE
    /\ Resumed(suspendBlameAnnotations("debugging", activeTextEditor), "debugStart", Undefined)
    /\ UNCHANGED events

\* A debug session terminates: every live session-end listener calls
\* onDebugSessionEnded(); the calls after the first find the field undefined
\* and nothing suspended.
DebugSessionEnded ==
    /\ debugHost.running > 0
    /\ debugHost' = [debugHost EXCEPT !.running = @ - 1,
                                      !.listeners = IF @ > 0 THEN listenersAfterEnd ELSE @]
    /\ IF debugHost.listeners > 0
       THEN /\ _debugSessionEndDisposable' = FALSE
            /\ Resumed(resumeBlameAnnotations("debugging", activeTextEditor, FALSE), "debugEnd", Undefined)
       ELSE /\ UNCHANGED <<_debugSessionEndDisposable, lastRefresh>>
            /\ UNCHANGED <<annVars, hostState, trkVars, ctlVars, apiVars>>
    /\ UNCHANGED events

\* The tracker's dirty-state notification arrives: onDirtyStateChanged(e)
DirtyStateNotified(d, dirty) ==
    /\ HostEvent
    /\ IF dirty
       THEN Resumed(suspendBlameAnnotations("dirty", activeTextEditor), "dirty", d)
       ELSE Resumed(resumeClean(d), "clean", d)
    /\ UNCHANGED <<_debugSessionEndDisposable, debugHost>>

DirtyStateChanged == \E d \in Editors, dirty \in BOOLEAN : DirtyStateNotified(d, dirty)

\* The tracker's idle trigger arrives: onDirtyIdleTriggered(e)
DirtyIdleNotified(d) ==
    /\ HostEvent
    /\ Resumed(resumeIdle(d), "idle", d)
    /\ UNCHANGED <<_debugSessionEndDisposable, debugHost>>

DirtyIdleTriggered == \E d \in Editors : DirtyIdleNotified(d)

(***************************************************************************)
(* The clock: time passes only when no callback is due                     *)
(***************************************************************************)
Debouncers == {_dirtyIdleTriggeredDebounced, _dirtyStateChangedDebounced,
               textChangedDebounced, activeEditorDebounced, _updateBlameDebounced}

Tick ==
    /\ immediates = <<>>
    /\ \A deb \in Debouncers : ~DebounceDue(deb)
    /\ \A t \in orphanedIdle : t.remaining > 0
    /\ orphanedIdle # {} \/ \E deb \in Debouncers : DebouncePending(deb)
    /\ _dirtyIdleTriggeredDebounced' = DebounceTick(_dirtyIdleTriggeredDebounced)
    /\ _dirtyStateChangedDebounced' = DebounceTick(_dirtyStateChangedDebounced)
    /\ textChangedDebounced' = DebounceTick(textChangedDebounced)
    /\ activeEditorDebounced' = DebounceTick(activeEditorDebounced)
    /\ _updateBlameDebounced' = DebounceTick(_updateBlameDebounced)
    /\ orphanedIdle' = {[t EXCEPT !.remaining = Max(0, t.remaining - Quantum)] :
                            t \in orphanedIdle}
    /\ sinceCleanSched' = IF DebouncePending(_dirtyStateChangedDebounced)
                          THEN Min(DirtyStateChangedWait, sinceCleanSched + Quantum)
                          ELSE sinceCleanSched
    /\ UNCHANGED <<_documentMap, records, _dirtyIdleTriggerDelay, immediates, initWaiters,
                   lastNote, lastIdle>>
    /\ UNCHANGED <<_blameAnnotationState, _editor, _hoverProviderDisposable, refreshing, lines,
                   lineState, inFlight, statusBarText, decorations, blameCfg, lastBlame>>
    /\ UNCHANGED <<annVars, dbgVars, cmdVars, expVars, apiVars, hostVars>>

(***************************************************************************)
(* Initial states and specifications                                       *)
(***************************************************************************)
NoBlame == [editor |-> Undefined, found |-> FALSE, linesChanged |-> FALSE, pending |-> FALSE, setState |-> FALSE,
            statusBar |-> FALSE, decorated |-> FALSE]

(***************************************************************************)
(* DiffDirectoryCommand.execute(editor, uri, args).  The call is followed   *)
(* from await to await; pc names the call it waits for.  source is the      *)
(* progress CancellationTokenSource (progressCancellation).  What the call  *)
(* did is kept until the next call: the exception caught, the warning and   *)
(* its answer, the log, the error message, and whether the promise execute  *)
(* returned was rejected.                                                   *)
(***************************************************************************)
MaxRuns == 3

NoException == [kind |-> "none", message |-> ""]

\* What the calls of execute may throw: a string, or an Error with a message.
Exceptions == [kind : {"string", "Error"}, message : {"No diff tool found", "failure"}]

\* ex && ex.toString(): a string is its own text, an Error reads "Error: " + message
toString(ex) ==
    IF ex.kind = "string" THEN [prefix |-> "", text |-> ex.message]
    ELSE [prefix |-> "Error: ", text |-> ex.message]

NoDiffToolFound == [prefix |-> "", text |-> "No diff tool found"]

NoCommand == [pc |-> "idle", runs |-> 0, ref1 |-> FALSE, source |-> "undefined",
              ex |-> NoException, warned |-> FALSE, accepted |-> FALSE,
              helpOpened |-> FALSE, logged |-> FALSE, errorShown |-> FALSE,
              opened |-> FALSE, rejected |-> FALSE]

\* finally { progressCancellation && progressCancellation.dispose(); }
finally(c) == [c EXCEPT !.source = IF @ = "live" THEN "disposed" ELSE @]

\* execute returns (through finally); rejected tells whether the promise it
\* returned is rejected.
returned(c, rejected) == [finally(c) EXCEPT !.pc = "done", !.rejected = rejected]

\* catch (ex): the warning for 'No diff tool found' (the call then waits for
\* the answer), the log and the error message for everything else.
catch(c, ex) ==
    IF toString(ex) = NoDiffToolFound
    THEN [c EXCEPT !.ex = ex, !.warned = TRUE, !.pc = "showWarningMessage"]
    ELSE returned([c EXCEPT !.ex = ex, !.logged = TRUE, !.errorShown = TRUE], FALSE)

\* A call that resolves with value v or throws one of Exceptions.
Outcomes(values) == [threw : {FALSE}, value : values, ex : {NoException}]
                        \cup [threw : {TRUE}, value : {""}, ex : Exceptions]

\* The command is run, with or without args.ref1: execute starts and awaits
\* Container.git.getRepoPath(uri).
Execute ==
    \E ref1 \in BOOLEAN :
        /\ diffCommand.pc \in {"idle", "done"}
        /\ diffCommand.runs < MaxRuns
        /\ diffCommand' = [NoCommand EXCEPT !.pc = "getRepoPath", !.ref1 = ref1,
                                            !.runs = diffCommand.runs + 1]
        /\ UNCHANGED <<annVars, hostVars, trkVars, ctlVars, apiVars, dbgVars, expVars>>

\* Container.git.openDirectoryDiff(repoPath, args.ref1, args.ref2), taken as a
\* call that returns or throws to its caller.
openDirectoryDiff(c, out) ==
    IF out.threw THEN catch(c, out.ex) ELSE returned([c EXCEPT !.opened = TRUE], FALSE)

\* getRepoPath resolves: without a repository the warning of Messages is
\* returned; with args.ref1 the diff is opened; without it the progress is
\* shown and the branches and tags are awaited.
RepoPathResolved ==
    \E out \in Outcomes({"repo", ""}), open \in Outcomes({"ok"}) :
        /\ diffCommand.pc = "getRepoPath"
        /\ diffCommand' =
               IF out.threw THEN catch(diffCommand, out.ex)
               ELSE IF out.value = "" THEN returned(diffCommand, FALSE)
               ELSE IF diffCommand.ref1 THEN openDirectoryDiff(diffCommand, open)
               ELSE [diffCommand EXCEPT !.source = "live", !.pc = "getBranchesAndTags"]
        /\ UNCHANGED <<annVars, hostVars, trkVars, ctlVars, apiVars, dbgVars, expVars>>

\* Promise.all([getBranches, getTags]) resolves; the progress may have been
\* cancelled meanwhile.
BranchesAndTagsResolved ==
    \E out \in Outcomes({"refs"}), cancelled \in BOOLEAN :
        /\ diffCommand.pc = "getBranchesAndTags"
        /\ diffCommand' =
               IF out.threw THEN catch(diffCommand, out.ex)
               ELSE IF cancelled THEN returned(diffCommand, FALSE)
               ELSE [diffCommand EXCEPT !.pc = "show"]
        /\ UNCHANGED <<annVars, hostVars, trkVars, ctlVars, apiVars, dbgVars, expVars>>

\* BranchesAndTagsQuickPick.show resolves: nothing picked, a command item
\* (`return pick.execute()`: the promise is returned, not awaited), a branch
\* or tag, or an item without a name.
Picked ==
    \E out \in Outcomes({"undefined", "command", "ref", "unnamed"}), open \in Outcomes({"ok"}) :
        /\ diffCommand.pc = "show"
        /\ diffCommand' =
               IF out.threw THEN catch(diffCommand, out.ex)
               ELSE IF out.value \in {"undefined", "unnamed"} THEN returned(diffCommand, FALSE)
               ELSE IF out.value = "command"
                    THEN [finally(diffCommand) EXCEPT !.pc = "pick.execute"]
                    ELSE openDirectoryDiff([diffCommand EXCEPT !.ref1 = TRUE], open)
        /\ UNCHANGED <<annVars, hostVars, trkVars, ctlVars, apiVars, dbgVars, expVars>>

\* The promise of pick.execute() settles, and with it the promise of execute.
PickExecuted ==
    \E out \in Outcomes({"ok"}) :
        /\ diffCommand.pc = "pick.execute"
        /\ diffCommand' = [diffCommand EXCEPT !.pc = "done", !.rejected = out.threw,
                                              !.ex = out.ex]
        /\ UNCHANGED <<annVars, hostVars, trkVars, ctlVars, apiVars, dbgVars, expVars>>

\* window.showWarningMessage(..., 'View Git Docs') resolves with the user's
\* answer: when the user took the offer the help is opened and the promise of
\* commands.executeCommand is returned, not awaited.
WarningAnswered ==
    \E accepted \in BOOLEAN, open \in Outcomes({"ok"}) :
        /\ diffCommand.pc = "showWarningMessage"
        /\ ~accepted => ~open.threw
        /\ diffCommand' = returned([diffCommand EXCEPT !.accepted = accepted,
                                                       !.helpOpened = accepted],
                                   accepted /\ open.threw)
        /\ UNCHANGED <<annVars, hostVars, trkVars, ctlVars, apiVars, dbgVars, expVars>>

(***************************************************************************)
(* ResultsExplorer.  A node is the index of its record in nodes, which      *)
(* grows with every `new ...ResultsNode(...)`; a saved result is its type.  *)
(***************************************************************************)
MaxNodes == 4
MaxSaved == 2

Kinds == {"comparison", "commit", "commits"}

NoAdd == [node |-> 0, ret |-> FALSE, cleared |-> FALSE]

\* this._roots.includes(node)
includes(roots, node) == \E i \in 1..Len(roots) : roots[i] = node

\* The saved results that fromSaved rebuilds: r.type === 'comparison'
Comparisons(saved) == SelectSeq(saved, LAMBDA r : r = "comparison")

\* fromSaved(): a new ComparisonResultsNode for every saved comparison, in
\* the order of the configuration
fromSaved(ns, saved) ==
    LET n == Len(Comparisons(saved)) IN
    [nodes |-> ns \o [i \in 1..n |-> [kind |-> "comparison", disposed |-> FALSE]],
     roots |-> [i \in 1..n |-> Len(ns) + i]]

\* clearResults() on st = [roots, nodes]: every root is disposed and the
\* roots are rebuilt from the saved results
clearResults(st, saved) ==
    IF st.roots = <<>> THEN st
    ELSE fromSaved([i \in 1..Len(st.nodes) |->
                       [st.nodes[i] EXCEPT !.disposed = @ \/ includes(st.roots, i)]],
                   saved)

\* Variant of addResults that appends the node.
AddResultsAtEnd(st, results, keep, saved) ==
    IF includes(st.roots, results) THEN [roots |-> st.roots, nodes |-> st.nodes, ret |-> FALSE]
    ELSE LET c == IF Len(st.roots) > 0 /\ ~keep THEN clearResults(st, saved) ELSE st IN
         [roots |-> Append(c.roots, results), nodes |-> c.nodes, ret |-> TRUE]

\* addResults(results): the roots and nodes afterwards and the value returned
addResults(st, results, keep, saved) ==
    IF includes(st.roots, results) THEN [roots |-> st.roots, nodes |-> st.nodes, ret |-> FALSE]
    ELSE LET c == IF Len(st.roots) > 0 /\ ~keep THEN clearResults(st, saved) ELSE st IN
         [roots |-> <<results>> \o c.roots, nodes |-> c.nodes, ret |-> TRUE]

\* The nodes a call may construct fit the bound of the model.
RoomFor(n) == Len(nodes) + n + Len(Comparisons(savedResults)) <= MaxNodes

\* addResults(node) is called on the explorer as it is, constructed holds the
\* nodes constructed for the call.
AddResultsOf(node, constructed) ==
    LET out == addResults([roots |-> _roots, nodes |-> constructed], node, keepResults,
                          savedResults) IN
    /\ _roots' = out.roots
    /\ nodes' = out.nodes
    /\ lastAdd' = [node |-> node, ret |-> out.ret,
                    cleared |-> out.ret /\ _roots # <<>> /\ ~keepResults]
    /\ UNCHANGED <<keepResults, savedResults>>
    /\ UNCHANGED <<annVars, hostVars, trkVars, ctlVars, apiVars, dbgVars, cmdVars>>

\* showComparisonInResults, showCommitInResults, showCommitsInResults:
\* addResults(new ...ResultsNode(...))
ShowInResults ==
    \E kind \in Kinds :
        /\ RoomFor(1)
        /\ AddResultsOf(Len(nodes) + 1, Append(nodes, [kind |-> kind, disposed |-> FALSE]))

\* addResults called with a node constructed earlier and not disposed (every
\* such node is a root)
AddResults ==
    \E node \in 1..Len(nodes) :
        /\ ~nodes[node].disposed
        /\ RoomFor(0)
        /\ AddResultsOf(node, nodes)

\* The command gitlens.resultsExplorer.close: clearResults()
Close ==
    /\ RoomFor(0)
    /\ LET out == clearResults([roots |-> _roots, nodes |-> nodes], savedResults) IN
       /\ _roots' = out.roots
       /\ nodes' = out.nodes
    /\ UNCHANGED <<keepResults, savedResults, lastAdd>>
    /\ UNCHANGED <<annVars, hostVars, trkVars, ctlVars, apiVars, dbgVars, cmdVars>>

\* The command gitlens.resultsExplorer.clearResultsNode
clearResultsNode ==
    \E node \in 1..Len(nodes) :
        /\ includes(_roots, node)
        /\ _roots' = SelectSeq(_roots, LAMBDA r : r # node)
        /\ nodes' = [nodes EXCEPT ![node].disposed = TRUE]
        /\ UNCHANGED <<keepResults, savedResults, lastAdd>>
        /\ UNCHANGED <<annVars, hostVars, trkVars, ctlVars, apiVars, dbgVars, cmdVars>>

\* The command gitlens.resultsExplorer.saveResultsNode, for a comparison
saveResultsNode ==
    \E node \in 1..Len(nodes) :
        /\ nodes[node].kind = "comparison"
        /\ Len(savedResults) < MaxSaved
        /\ savedResults' = Append(savedResults, "comparison")
        /\ UNCHANGED <<_roots, nodes, keepResults, lastAdd>>
        /\ UNCHANGED <<annVars, hostVars, trkVars, ctlVars, apiVars, dbgVars, cmdVars>>

\* The commands gitlens.resultsExplorer.setKeepResultsToOn and ...ToOff
setKeepResults ==
    \E on \in BOOLEAN :
        /\ keepResults # on
        /\ keepResults' = on
        /\ UNCHANGED <<_roots, nodes, savedResults, lastAdd>>
        /\ UNCHANGED <<annVars, hostVars, trkVars, ctlVars, apiVars, dbgVars, cmdVars>>

\* ResultsExplorer after its constructor: the roots are rebuilt from the
\* saved results (onConfigurationChanged, initializing)
InitExplorer(saved, keeps) ==
    /\ savedResults \in saved
    /\ keepResults \in keeps
    /\ nodes = fromSaved(<<>>, savedResults).nodes
    /\ _roots = fromSaved(<<>>, savedResults).roots
    /\ lastAdd = NoAdd

\* DocumentTracker after its constructor, with delayAfterEdit one of delays
InitTracker(delays) ==
    /\ _documentMap = [k \in AllDocs \cup Keys |-> 0]
    /\ records = <<>>
    /\ _dirtyIdleTriggerDelay \in delays
    /\ _dirtyIdleTriggeredDebounced = NoDebounce
    /\ _dirtyStateChangedDebounced = NoDebounce
    /\ orphanedIdle = {}
    /\ textChangedDebounced = debounce(TextChangedWait)
    /\ activeEditorDebounced = debounce(ActiveEditorWait)
    /\ immediates = <<>>
    /\ initWaiters = <<>>
    /\ lastNote = NoNote
    /\ lastIdle = NoIdle
    /\ sinceCleanSched = 0
    /\ _disposable = TRUE
    /\ apiCalls = {}
    /\ lastReturns = {}
    /\ adding = <<>>

\* CurrentLineController after its constructor, under one of the configurations cfgs
InitController(cfgs) ==
    /\ _blameAnnotationState = "undefined"
    /\ _editor = Undefined
    /\ _hoverProviderDisposable = FALSE
    /\ refreshing = <<>>
    /\ lines = {}
    /\ lineState = NoLineState
    /\ _updateBlameDebounced = NoDebounce
    /\ inFlight = {}
    /\ statusBarText = [text |-> NoCommit, shown |-> FALSE]
    /\ decorations = [ed \in Editors |-> {}]
    /\ blameCfg \in cfgs
    /\ lastBlame = NoBlame
    /\ _debugSessionEndDisposable = FALSE
    /\ debugHost = [started |-> 0, running |-> 0, listeners |-> 0]
    /\ lastRefresh = NoRefresh

\* The configurations under which onConfigurationChanged starts the line
\* tracker and subscribes onActiveLinesChanged (trackCurrentLine).
Configs == {c \in [currentLine : BOOLEAN, statusBar : BOOLEAN, hovers : BOOLEAN,
                   reduceFlicker : BOOLEAN, sizeThresholdAfterEdit : {0},
                   untracked : {{}}] :
               c.currentLine \/ c.statusBar \/ c.hovers}

DefaultConfig == [currentLine |-> TRUE, statusBar |-> TRUE, hovers |-> TRUE,
                  reduceFlicker |-> FALSE, sizeThresholdAfterEdit |-> 0,
                  untracked |-> {}]

\* The configurations of trackCurrentLine without reduceFlicker, over a
\* repository that tracks every file or all but "b".
RefreshConfigs ==
    {[c EXCEPT !.untracked = u] : c \in {k \in Configs : ~k.reduceFlicker}, u \in {{}, {"b"}}}

\* The default configuration with the current-line annotations on or off and
\* advanced.blame.sizeThresholdAfterEdit unset or set.
SuspendConfigs ==
    {[DefaultConfig EXCEPT !.currentLine = cl, !.sizeThresholdAfterEdit = t] :
        cl \in BOOLEAN, t \in {0, SizeThreshold}}

InitHost(editors) ==
    /\ diffCommand = NoCommand
    /\ InitExplorer({<<>>}, {FALSE})
    /\ activeTextEditor \in editors
    /\ isDirty = [d \in Docs |-> FALSE]
    /\ events = 0

\* AnnotationState on its own
InitA ==
    /\ InitAnnotation
    /\ InitHost({Undefined})
    /\ InitTracker({0})
    /\ InitController({DefaultConfig})

NextAnnotation ==
    \/ \E e \in BOOLEAN : Reset(e) /\ UNCHANGED <<hostVars, trkVars, ctlVars, apiVars, dbgVars, cmdVars, expVars>>
    \/ \E r \in Reasons : Suspend(r) /\ UNCHANGED <<hostVars, trkVars, ctlVars, apiVars, dbgVars, cmdVars, expVars>>
    \/ \E r \in Reasons : Resume(r) /\ UNCHANGED <<hostVars, trkVars, ctlVars, apiVars, dbgVars, cmdVars, expVars>>

SpecAnnotation == InitA /\ [][NextAnnotation]_vars

\* DocumentTracker driven by the host
InitT ==
    /\ _enabled = FALSE /\ _suspendReason = Undefined /\ calls = <<>>
    /\ InitHost(Editors \cup {Undefined})
    /\ InitTracker(DelayChoices)
    /\ InitController({DefaultConfig})

NextTracker ==
    \/ HostActiveEditorChanged
    \/ HostEdit
    \/ HostClean
    \/ HostClose
    \/ ConfigurationChanged
    \/ SetForceDirtyStateChange
    \/ TextDocumentChangedTimer
    \/ ActiveTextEditorChangedTimer
    \/ DirtyStateImmediate
    \/ DirtyStateChangedTimer
    \/ DirtyIdleTimer
    \/ OrphanedIdleTimer
    \/ \E r \in RecIds : InitializationCompleted(r)
    \/ Add
    \/ Tick

SpecTracker == InitT /\ [][NextTracker]_vars

\* The tracker's API called while editors are switched and documents closed
InitApi == InitT

NextApi ==
    \/ HostActiveEditorChanged
    \/ ActiveTextEditorChangedTimer
    \/ HostClose
    \/ \E r \in RecIds : InitializationCompleted(r)
    \/ Add
    \/ AddUri
    \/ Get
    \/ GetOrAdd
    \/ Clear
    \/ Dispose

SpecApi == InitApi /\ [][NextApi]_vars

\* The tracker with Git data being cached and the configuration changing
InitConfig == InitT

NextConfig ==
    \/ HostActiveEditorChanged
    \/ HostEdit
    \/ HostClean
    \/ ConfigurationChanged
    \/ CacheConfigurationChanged
    \/ CacheState
    \/ TextDocumentChangedTimer
    \/ ActiveTextEditorChangedTimer
    \/ DirtyStateImmediate
    \/ DirtyStateChangedTimer
    \/ DirtyIdleTimer
    \/ OrphanedIdleTimer
    \/ \E r \in RecIds : InitializationCompleted(r)
    \/ Tick

SpecConfig == InitConfig /\ [][NextConfig]_vars

\* CurrentLineController driven by the line tracker
InitB ==
    /\ _enabled = FALSE /\ _suspendReason = Undefined /\ calls = <<>>
    /\ InitHost({Undefined})
    /\ InitTracker({0})
    /\ InitController(Configs)

NextBlame ==
    \/ ActiveLinesChanged
    \/ RefreshResumed
    \/ UpdateBlameTimer
    \/ BlameFetched
    \/ SetBlameAnnotationState
    \/ DocumentDirtyChanged
    \/ \E r \in RecIds : InitializationCompleted(r)
    \/ Tick

SpecBlame == InitB /\ [][NextBlame]_vars

\* CurrentLineController driven by debug sessions and the tracker's
\* notifications, up to the debounce of updateBlame
InitSuspend ==
    /\ _enabled = FALSE /\ _suspendReason = Undefined /\ calls = <<>>
    /\ InitHost({Undefined})
    /\ InitTracker({0})
    /\ InitController(SuspendConfigs)

NextSuspend ==
    \/ ActiveLinesChanged
    \/ RefreshResumed
    \/ SetBlameAnnotationState
    \/ DebugSessionStarted
    \/ DebugSessionEnded
    \/ DirtyStateChanged
    \/ DirtyIdleTriggered
    \/ \E r \in RecIds : InitializationCompleted(r)

SpecSuspend == InitSuspend /\ [][NextSuspend]_vars

\* CurrentLineController.refresh called by every handler that calls it, with
\* the blame updates it schedules
InitRefresh ==
    /\ _enabled = FALSE /\ _suspendReason = Undefined /\ calls = <<>>
    /\ InitHost({Undefined})
    /\ InitTracker({0})
    /\ InitController(RefreshConfigs)

NextRefresh ==
    \/ ActiveLinesChanged
    \/ FileAnnotationsToggled
    \/ SetBlameAnnotationState
    \/ DirtyStateChanged
    \/ RefreshResumed
    \/ UpdateBlameTimer
    \/ BlameFetched
    \/ \E r \in RecIds : InitializationCompleted(r)
    \/ Tick

SpecRefresh == InitRefresh /\ [][NextRefresh]_vars

\* CurrentLineController.updateBlame over documents that are edited, with the
\* tracker's handling of the edits
InitForce ==
    /\ _enabled = FALSE /\ _suspendReason = Undefined /\ calls = <<>>
    /\ InitHost({Undefined})
    /\ InitTracker({0})
    /\ InitController({c \in Configs : ~c.reduceFlicker})

NextForce ==
    \/ ActiveLinesChanged
    \/ RefreshResumed
    \/ UpdateBlameTimer
    \/ BlameFetched
    \/ HostEdit
    \/ OutputAppended
    \/ TextDocumentChangedTimer
    \/ DirtyStateImmediate
    \/ \E r \in RecIds : InitializationCompleted(r)
    \/ Tick

SpecForce == InitForce /\ [][NextForce]_vars

\* DiffDirectoryCommand run by the user
InitDiff ==
    /\ _enabled = FALSE /\ _suspendReason = Undefined /\ calls = <<>>
    /\ InitHost({Undefined})
    /\ InitTracker({0})
    /\ InitController({DefaultConfig})

NextDiff ==
    \/ Execute
    \/ RepoPathResolved
    \/ BranchesAndTagsResolved
    \/ Picked
    \/ PickExecuted
    \/ WarningAnswered

SpecDiff == InitDiff /\ [][NextDiff]_vars

\* getOrAdd calls that overlap
InitOverlap == InitT

NextOverlap ==
    \/ GetOrAddCalled
    \/ GetOrAddResumed
    \/ \E r \in RecIds : InitializationCompleted(r)

SpecOverlap == InitOverlap /\ [][NextOverlap]_vars

\* Edits and saves while one editor stays active
InitOrder ==
    /\ _enabled = FALSE /\ _suspendReason = Undefined /\ calls = <<>>
    /\ InitHost(Editors)
    /\ InitTracker({0})
    /\ InitController({DefaultConfig})

NextOrder ==
    \/ HostEdit
    \/ HostClean
    \/ TextDocumentChangedTimer
    \/ DirtyStateImmediate
    \/ DirtyStateChangedTimer
    \/ \E r \in RecIds : InitializationCompleted(r)
    \/ Tick

SpecOrder == InitOrder /\ [][NextOrder]_vars

\* ResultsExplorer driven by its commands, over saved results of either type
InitResults ==
    /\ _enabled = FALSE /\ _suspendReason = Undefined /\ calls = <<>>
    /\ diffCommand = NoCommand
    /\ activeTextEditor = Undefined
    /\ isDirty = [d \in Docs |-> FALSE]
    /\ events = 0
    /\ InitExplorer({<<>>, <<"comparison">>, <<"search", "comparison">>}, BOOLEAN)
    /\ InitTracker({0})
    /\ InitController({DefaultConfig})

NextResults ==
    \/ ShowInResults
    \/ AddResults
    \/ Close
    \/ clearResultsNode
    \/ saveResultsNode
    \/ setKeepResults

SpecResults == InitResults /\ [][NextResults]_vars

Init == InitT
Next == NextTracker
Spec == SpecTracker

(***************************************************************************)
(* Properties of AnnotationState, checked under SpecAnnotation             *)
(***************************************************************************)
\* C1: in every reachable state of AnnotationState the enabled getter returns
\* false whenever a suspend reason is set, whatever the base flag is.
C1_SuspendedNeverEnabled ==
    /\ suspended(_suspendReason) => enabled(_enabled, _suspendReason) = FALSE
    /\ \A i \in 1..Len(calls) :
           calls[i].op = "suspend" => calls[i].enabledAfter = FALSE

\* A reason is set over a base flag that is true: the getter has to override it.
C1_Witness ==
    /\ suspended(_suspendReason)
    /\ _enabled = TRUE
    /\ calls # <<>> /\ calls[Len(calls)].op = "suspend"

\* calls[j] is a resume(r) that follows the suspend(r) at calls[i] with no
\* reset between them.
MatchingResume(i, j) ==
    /\ i < j
    /\ calls[i].op = "suspend" /\ calls[j].op = "resume"
    /\ calls[i].arg = calls[j].arg
    /\ \A k \in (i + 1)..(j - 1) : calls[k].op # "reset"

\* C2: suspend(r) followed by resume(r) with no reset in between leaves enabled
\* equal to the base value b held before the suspension; in particular
\* reset(true), suspend('dirty'), resume('dirty') yields enabled = true.
C2_ResumeRestoresBase ==
    \A i \in 1..Len(calls), j \in 1..Len(calls) :
        MatchingResume(i, j) => calls[j].enabledAfter = calls[i].baseBefore

\* reset(true), suspend('dirty'), resume('dirty') were called and enabled is true.
C2_Witness ==
    /\ Len(calls) = 3
    /\ calls[1].op = "reset" /\ calls[1].arg = TRUE
    /\ calls[2].op = "suspend" /\ calls[2].arg = "dirty"
    /\ calls[3].op = "resume" /\ calls[3].arg = "dirty"
    /\ enabled(_enabled, _suspendReason) = TRUE

(***************************************************************************)
(* Properties of CurrentLineController.updateBlame, checked under SpecBlame *)
(***************************************************************************)
\* What the last resumption of updateBlame applied of its result.
NothingApplied ==
    ~lastBlame.setState /\ ~lastBlame.statusBar /\ ~lastBlame.decorated

\* C3: when the active lines changed during the fetch so that they no longer
\* include all the lines of the call, the result is not applied: no line state
\* set, no status bar text, no trailing decorations.
C3_StaleLinesNotApplied ==
    lastBlame.found /\ lastBlame.linesChanged => NothingApplied

\* C4: when a newer debounced update is pending as an earlier updateBlame
\* resumes from its fetch, the earlier call changes neither the line state,
\* the status bar nor the decorations.
C4_PendingAbandonsResult ==
    lastBlame.found /\ lastBlame.pending => NothingApplied

\* The calls of updateBlame that resume in this step.
ResumedCalls == inFlight \ inFlight'

\* C29: when the Git-data provider returns undefined for the blame of a line
\* or of a file, updateBlame ends there: it applies nothing (no line state,
\* no status bar text, no decoration, no force flag) and clears the editor's
\* annotations: decorations removed, hover providers unregistered, line state
\* reset.
C29_NoBlameClears ==
    [][BlameFetched /\ ~lastBlame'.found
          => /\ decorations'[lastBlame'.editor] = {}
             /\ ~_hoverProviderDisposable'
             /\ lineState' = NoLineState
             /\ ~statusBarText'.shown
             /\ statusBarText'.text = statusBarText.text
             /\ records' = records
             /\ _updateBlameDebounced' = _updateBlameDebounced
             /\ inFlight' = inFlight \ ResumedCalls]_vars

\* A fetch for the active editor returned nothing, and the hover providers
\* its refresh had registered are gone.
C29_Witness ==
    /\ lastBlame.editor # Undefined /\ ~lastBlame.found
    /\ lastBlame.editor = activeTextEditor /\ lines # {}
    /\ blameCfg.hovers /\ ~_hoverProviderDisposable
    /\ lineState = NoLineState
    /\ inFlight = {}

(***************************************************************************)
(* Properties of DocumentTracker, checked under SpecTracker                *)
(***************************************************************************)
\* This step is the run of onTextDocumentChanged by its 50ms debounce.
TextChangeHandled ==
    /\ DebounceDue(textChangedDebounced)
    /\ ~DebouncePending(textChangedDebounced')

\* This step schedules a dirty-state-changed notification: a setImmediate
\* callback is queued or the 250ms debounce is (re)started.
NotificationScheduled ==
    \/ Len(immediates') > Len(immediates)
    \/ /\ DebouncePending(_dirtyStateChangedDebounced')
       /\ _dirtyStateChangedDebounced'.remaining = DirtyStateChangedWait
       /\ _dirtyStateChangedDebounced' # _dirtyStateChangedDebounced

\* Before the step: the record of the changed document (a fresh one when it
\* is not tracked yet) differs in dirty from the document or has its force
\* flag set, and the document is the one of the active editor.
FlippedOrForcedOnActive ==
    LET d == textChangedDebounced.args.document
        r == _documentMap[d]
        recDirty == IF r = 0 THEN FALSE ELSE records[r].dirty
        force == IF r = 0 THEN FALSE ELSE records[r].force IN
    /\ force \/ recDirty # isDirty[d]
    /\ activeTextEditor # Undefined
    /\ EditorDocument(activeTextEditor) = d

\* C5: on a text change DocumentTracker schedules a dirty-state-changed
\* notification only if (the record's dirty flag differs from the document's
\* dirty state or its force flag is set) and the changed document is the
\* active editor's document; in every other case none is scheduled.
C5_ScheduledOnlyIfFlippedOrForcedOnActive ==
    [][TextChangeHandled /\ NotificationScheduled => FlippedOrForcedOnActive]_vars

\* A notification was scheduled through the force flag alone: the queued
\* event is dirty and no flip of the record's dirty flag.
C5_Witness ==
    /\ immediates # <<>>
    /\ Head(immediates).dirty
    /\ ~Head(immediates).flip

\* The dirty-state-changed notifications that ran their callback: the last
\* one delivered and those awaiting the record's initialization.
CleanNotes ==
    {[tag |-> w.tag, quiet |-> w.quiet] :
        w \in {initWaiters[i] : i \in {j \in 1..Len(initWaiters) :
                                          /\ initWaiters[j].kind = "dirtyState"
                                          /\ ~initWaiters[j].e.dirty}}}
    \cup (IF lastNote.rec # 0 /\ ~lastNote.dirty
          THEN {[tag |-> lastNote.tag, quiet |-> lastNote.quiet]} ELSE {})

\* C6 (amended): the callback of a dirty transition, run on the next
\* scheduler turn, cancels the clean notification waiting in its 250ms
\* debounce, so that once it ran no clean call made before the transition is
\* waiting; and a clean notification is delivered only after 250ms passed
\* with no further clean scheduling.
C6_DirtyCancelsWaitingClean ==
    /\ immediates = <<>> =>
           ~(/\ DebouncePending(_dirtyStateChangedDebounced)
             /\ _dirtyStateChangedDebounced.tag # "fresh")
    /\ \A n \in CleanNotes : n.quiet >= DirtyStateChangedWait

\* A dirty transition was notified twice in a row for one record: the clean
\* transition between them was waiting in the debounce and was cancelled.
C6_Witness ==
    /\ lastNote.dirty /\ lastNote.dup
    /\ _dirtyStateChangedDebounced.state = "idle"
    /\ immediates = <<>>

\* C6 (as claimed): besides the above, a clean notification scheduled before
\* a dirty transition is never delivered after that dirty transition.
C6_CleanNeverAfterDirtyTransition ==
    /\ C6_DirtyCancelsWaitingClean
    /\ \A n \in CleanNotes : n.tag = "fresh"

C8_NoIdleTriggerWhileDisabled ==
    lastIdle.rec # 0 => lastIdle.delay > 0

\* C9: an idle trigger fires only after the quiet delay passed with no
\* further change while the document remains dirty: a change that leaves the
\* document clean cancels the timer, so no idle trigger is delivered once the
\* tracker has handled the change to clean.
C9_IdleTriggerOnlyWhileDirty ==
    lastIdle.rec # 0 => lastIdle.expiry.recDirty

\* C10: exactly one live record per tracked document, reachable under both
\* the document entry and the key entry; no record leaves the map undisposed.
C10_OneLiveRecordPerDocument ==
    /\ \A d \in Docs : _documentMap[d] = _documentMap[toKey(d)]
    /\ \A d \in Docs : _documentMap[d] # 0 => ~records[_documentMap[d]].disposed
    /\ \A r \in 1..Len(records) :
           ~records[r].disposed => _documentMap[records[r].document] = r

\* What a document-closed event for d has to do to the map and the records.
ClosedEffect(d) ==
    LET r == _documentMap[d] IN
    IF r = 0
    THEN _documentMap' = _documentMap /\ records' = records
    ELSE /\ records'[r].disposed
         /\ ~has(d)' /\ ~has(toKey(d))'
         /\ _get(d)' = 0 /\ _get(toKey(d))' = 0
         /\ \A k \in (AllDocs \cup Keys) \ {d, toKey(d)} : _documentMap'[k] = _documentMap[k]
         /\ \A q \in 1..Len(records) : q # r => records'[q] = records[q]
         /\ Len(records') = Len(records)

\* C11: on a document-closed event for a tracked document the record is
\* disposed and both of its map entries are removed, so has and get report
\* absence afterwards; the entries of other documents are unchanged, and
\* closing an untracked document changes nothing.
C11_ClosedRemovesBothEntries ==
    [][\A d \in Editors : HostCloseOf(d) => ClosedEffect(d)]_vars

\* A tracked document was closed: its record is disposed and unreachable
\* while another document is still tracked.
C11_Witness ==
    \E r \in 1..Len(records), q \in 1..Len(records) :
        /\ records[r].disposed
        /\ ~has(records[r].document) /\ ~has(toKey(records[r].document))
        /\ ~records[q].disposed /\ _documentMap[records[q].document] = q

\* What a document-saved event for d has to do to the map and the records.
SavedEffect(d) ==
    LET r == _documentMap[d] IN
    IF r # 0
    THEN /\ records'[r].forceBlameChange
         /\ records' = [records EXCEPT ![r].forceBlameChange = TRUE]
         /\ _documentMap' = _documentMap
    ELSE IF activeTextEditor # Undefined /\ EditorDocument(activeTextEditor) = d
         THEN /\ Len(records') = Len(records) + 1
              /\ _documentMap'[d] = Len(records')
              /\ _documentMap'[toKey(d)] = Len(records')
              /\ records'[Len(records')].document = d
              /\ \A q \in 1..Len(records) : records'[q] = records[q]
         ELSE _documentMap' = _documentMap /\ records' = records

\* C12: on a document-saved event a tracked document gets a forced
\* blame-state update requested on its existing record and no record is
\* created; an untracked document gets a record exactly when it is the active
\* document, and otherwise the map is left unchanged.
C12_SavedForcesOrTracksActive ==
    [][\A d \in Editors : HostCleanOf(d, TRUE) => SavedEffect(d)]_vars

\* Both cases happened: a record created by addCore for the active document
\* that was saved while tracked.
C12_Witness ==
    \E r \in 1..Len(records) :
        /\ records[r].forceBlameChange
        /\ ~records[r].disposed
        /\ _documentMap[records[r].document] = r

(***************************************************************************)
(* Properties of the tracker's API, checked under SpecApi                  *)
(***************************************************************************)
\* What a call of get(x) does at once.
GetEffect(x) ==
    LET r == _documentMap[lookupKey(x)] IN
    /\ _documentMap' = _documentMap
    /\ records' = records
    /\ IF r = 0
       THEN /\ apiCalls' = apiCalls
            /\ \A ret \in lastReturns' : ret.op = "get" /\ ret.arg = x /\ ret.doc = 0
       ELSE IF records[r].initialized
            THEN /\ apiCalls' = apiCalls
                 /\ \A ret \in lastReturns' : ret.op = "get" /\ ret.arg = x /\ ret.doc = r
            ELSE /\ lastReturns' = lastReturns
                 /\ apiCalls' = apiCalls \cup {Call("get", x, r, FALSE)}

\* C13: get(key) never adds, replaces or removes a map entry, neither when it
\* is called nor when it returns; it returns undefined when nothing is
\* registered under the key, and otherwise the record registered at the
\* call, which it returns only once the record is initialized.
C13_GetOnlyLooksUp ==
    [][/\ \A x \in Editors \cup Keys \cup GitUris : get(x) => GetEffect(x)
       /\ (\E c \in apiCalls \ apiCalls' : c.op = "get")
              => /\ _documentMap' = _documentMap
                 /\ \A c \in apiCalls \ apiCalls' :
                        c.op = "get" => \E ret \in lastReturns' : ret.op = "get" /\ ret.doc = c.doc
       /\ \A ret \in lastReturns' :
              ret.op = "get" /\ ret.doc # 0
                  => ret.initialized /\ records'[ret.doc].initialized]_vars

\* A get that had to wait returned together with the add that created the record.
C13_Witness ==
    \E r1 \in lastReturns, r2 \in lastReturns :
        /\ r1.op = "add" /\ r2.op = "get"
        /\ r1.doc = r2.doc /\ r2.doc # 0
        /\ r2.initialized

\* What a call of getOrAdd(x) does to the map at once.
GetOrAddEffect(x) ==
    LET r == _documentMap[lookupKey(x)] IN
    IF r # 0
    THEN _documentMap' = _documentMap /\ records' = records
    ELSE \/ /\ \E ret \in lastReturns' : ret.threw
            /\ _documentMap' = _documentMap /\ records' = records
         \/ /\ Len(records') = Len(records) + 1
            /\ _documentMap'[lookupKey(x)] = Len(records')

\* C14: getOrAdd returns the record already registered without creating or
\* replacing one, creates and registers one when there is none, and when it
\* has returned a record, has(key) is true.
C14_GetOrAddLeavesKeyTracked ==
    [][/\ \A i \in AddInputs : getOrAdd(i[1], i[2]) => GetOrAddEffect(i[1])
       /\ \A ret \in lastReturns' :
              ret.op = "getOrAdd" /\ ~ret.threw => ret.doc # 0 /\ ret.has]_vars

\* What clear() has to do: every record the map held is disposed and the map
\* holds nothing, so has reports absence for every document and key.
ClearEffect ==
    /\ \A k \in DOMAIN _documentMap :
           /\ ~has(k)'
           /\ _documentMap[k] # 0 => records'[_documentMap[k]].disposed
    /\ Len(records') = Len(records)

\* C15: clear() disposes every record the map holds and leaves the map
\* empty; dispose() has the same effect on the map.
C15_ClearAndDisposeEmptyTheMap ==
    [][(Clear => ClearEffect) /\ (Dispose => ClearEffect)]_vars

\* dispose() ran while two records were registered.
C15_Witness ==
    /\ ~_disposable
    /\ \A k \in DOMAIN _documentMap : ~has(k)
    /\ \E r \in 1..Len(records), q \in 1..Len(records) :
           /\ records[r].document # records[q].document
           /\ records[r].disposed /\ records[q].disposed

\* What add(g) has to do when opening the versioned path of g failed with ex.
AddFailedOpenEffect(g, ex) ==
    IF ex = "Error: File not found (g)"
    THEN /\ \A ret \in lastReturns' \ lastReturns : ~ret.threw
         /\ Len(records') = Len(records) + 1
         /\ records'[Len(records')].document \in Placeholders
         /\ \A q \in 1..Len(records) :
                /\ records'[q] = records[q]
                /\ records[q].document # records'[Len(records')].document
         /\ _documentMap'[records'[Len(records')].document] = Len(records')
         /\ _documentMap'[lookupKey(g)] = Len(records')
    ELSE /\ lastReturns' = {Thrown("add", g, _documentMap)}
         /\ _documentMap' = _documentMap
         /\ records' = records
         /\ apiCalls' = apiCalls

\* C16: when add is given a GitUri whose document cannot be opened, a 'File
\* not found' failure is not propagated and a record is created and
\* registered over a new missing-revision placeholder; any other failure is
\* propagated to the caller and the map is unchanged.
C16_OnlyFileNotFoundIsTolerated ==
    [][\A g \in GitUris, ex \in OpenFailures : add(g, ex) => AddFailedOpenEffect(g, ex)]_vars

\* add(g) returned a record over a placeholder, registered under g's key.
C16_Witness ==
    \E ret \in lastReturns :
        /\ ret.op = "add" /\ ret.arg \in GitUris /\ ~ret.threw
        /\ records[ret.doc].document \in Placeholders
        /\ ret.has /\ ret.initialized

(***************************************************************************)
(* Properties of the configuration handler, checked under SpecConfig       *)
(***************************************************************************)
\* What a change of the caching or whitespace settings has to do.
CacheConfigEffect ==
    /\ \A k \in DOMAIN _documentMap :
           _documentMap[k] # 0 =>
               /\ records'[_documentMap[k]].state = "undefined"
               /\ records'[_documentMap[k]].lastReset = "config"
    /\ _documentMap' = _documentMap
    /\ Len(records') = Len(records)
    /\ \A q \in 1..Len(records) :
           /\ records'[q].dirty = records[q].dirty
           /\ records'[q].disposed = records[q].disposed
           /\ records'[q].forceBlameChange = records[q].forceBlameChange
    /\ UNCHANGED <<lastNote, lastIdle, initWaiters, immediates, lastReturns, isDirty,
                   _dirtyStateChangedDebounced>>

\* C17: a configuration change that affects caching or whitespace handling
\* resets the cached state of every tracked record; the handler fires no
\* blame-state, dirty-state or idle notification and changes neither the set
\* of tracked documents nor any dirty flag.
C17_ConfigResetsEveryRecord ==
    [][\A e \in ConfigEvents :
           e.cache /\ onConfigurationChanged(e) => CacheConfigEffect]_vars

\* A dirty tracked record lost its cached state to the configuration change.
C17_Witness ==
    \E r \in 1..Len(records) :
        /\ _documentMap[records[r].document] = r
        /\ records[r].lastReset = "config"
        /\ records[r].state = "undefined"
        /\ records[r].dirty

(***************************************************************************)
(* Properties of suspending and resuming, checked under SpecSuspend        *)
(***************************************************************************)
\* The annotations are resumed: nothing is suspended and the effective
\* flag is the base flag again; when they were suspended and an editor is
\* active, the handler refreshed it.
ResumedAndRefreshed(by) ==
    /\ ~suspended(_suspendReason')
    /\ _enabled' = _enabled
    /\ _blameAnnotationState' = "set" => AnnotationsEnabled' = _enabled
    /\ _blameAnnotationState = "set" /\ suspended(_suspendReason)
           /\ activeTextEditor # Undefined
           => lastRefresh'.editor = activeTextEditor /\ lastRefresh'.by = by

\* What the start and the end of a debug session have to do, the release of
\* the listeners aside.
DebugSuspendsAndResumes ==
    /\ DebugSessionStarted /\ AnnotationsEnabled
           => /\ suspended(_suspendReason')
              /\ ~AnnotationsEnabled'
              /\ _debugSessionEndDisposable'
    /\ DebugSessionEnded
           => /\ ~_debugSessionEndDisposable'
              /\ ResumedAndRefreshed("debugEnd")

\* C18: when a debug session starts while the annotations are enabled they
\* become suspended and a session-end listener is armed; when the session
\* ends the listener is released (no listener outlives the sessions), the
\* annotations are resumed to the value they had before and refreshed.
C18_DebugSessionSuspendsUntilItEnds ==
    [][/\ DebugSuspendsAndResumes
       /\ DebugSessionEnded /\ _blameAnnotationState = "set"
              => debugHost'.listeners <= debugHost'.running]_vars

\* C19: when the active document becomes dirty while the annotations are
\* enabled they become suspended; when the clean notification arrives for a
\* document whose line count is not over the threshold, they are resumed to
\* the value they had before and the active editor is refreshed.
C19_DirtySuspendsCleanResumes ==
    [][\A d \in Editors :
          /\ DirtyStateNotified(d, TRUE) /\ AnnotationsEnabled
                 => suspended(_suspendReason') /\ ~AnnotationsEnabled'
          /\ DirtyStateNotified(d, FALSE) /\ ~overThreshold(d)
                 => /\ ResumedAndRefreshed("clean")
                    /\ activeTextEditor # Undefined
                           => /\ lastRefresh'.editor = activeTextEditor
                              /\ lastRefresh'.by = "clean"]_vars

\* The clean notification resumed annotations that were suspended for
\* 'dirty', with the size threshold configured, and refreshed the active editor.
C19_Witness ==
    /\ lastRefresh.by = "clean" /\ lastRefresh.editor = activeTextEditor
    /\ lastRefresh.was = "dirty"
    /\ activeTextEditor # Undefined
    /\ _blameAnnotationState = "set" /\ _enabled /\ AnnotationsEnabled
    /\ blameCfg.sizeThresholdAfterEdit > 0
    /\ _editor = activeTextEditor

\* C20 as stated: when a document that suspended the annotations for 'dirty'
\* becomes clean, they are resumed unless its line count exceeds the
\* configured threshold; then resumption is skipped and they stay suspended.
C20_CleanResumesUnlessOverThreshold ==
    [][\A d \in Editors :
          DirtyStateNotified(d, FALSE) /\ _suspendReason = "dirty"
              => IF overThreshold(d)
                 THEN _suspendReason' = "dirty" /\ lastRefresh' = NoRefresh
                 ELSE ~suspended(_suspendReason')]_vars

\* C20, amended: becoming clean always resumes annotations suspended for
\* 'dirty', whatever the line count; it is the idle trigger that resumes
\* them unless the line count exceeds the configured threshold, in which
\* case resumption is skipped and they stay suspended.
C20_OnlyIdleTriggerHonoursThreshold ==
    [][\A d \in Editors :
          /\ DirtyStateNotified(d, FALSE) /\ _suspendReason = "dirty"
                 => /\ ~suspended(_suspendReason')
                    /\ activeTextEditor # Undefined => lastRefresh'.by = "clean"
          /\ DirtyIdleNotified(d) /\ _suspendReason = "dirty"
                 => IF overThreshold(d)
                    THEN /\ _suspendReason' = "dirty"
                         /\ lastRefresh' = NoRefresh
                         /\ UNCHANGED <<ctlVars, _enabled, _blameAnnotationState>>
                    ELSE /\ ~suspended(_suspendReason')
                         /\ activeTextEditor # Undefined => lastRefresh'.by = "idle"]_vars

\* A document over the threshold became clean and the annotations it had
\* suspended were resumed.
C20_Witness ==
    /\ lastRefresh.by = "clean" /\ lastRefresh.was = "dirty"
    /\ lastRefresh.doc \in Editors
    /\ lastRefresh.doc = lastRefresh.editor
    /\ blameCfg.sizeThresholdAfterEdit > 0
    /\ lineCount(lastRefresh.doc) > blameCfg.sizeThresholdAfterEdit
    /\ ~suspended(_suspendReason)

(***************************************************************************)
(* Further properties of AnnotationState, checked under SpecAnnotation     *)
(***************************************************************************)
\* The calls made so far end with op1(arg1), op2(arg2), op3(arg3).
EndsWith(op1, arg1, op2, arg2, op3, arg3) ==
    /\ Len(calls) >= 3
    /\ LET n == Len(calls) IN
       /\ calls[n - 2].op = op1 /\ calls[n - 2].arg = arg1
       /\ calls[n - 1].op = op2 /\ calls[n - 1].arg = arg2
       /\ calls[n].op = op3 /\ calls[n].arg = arg3

\* C21: after suspend('debugging'), suspend('dirty'), resume('debugging') the
\* state is still suspended (the effective flag is false).
C21_DirtySuspensionOutlivesDebugResume ==
    EndsWith("suspend", "debugging", "suspend", "dirty", "resume", "debugging")
        => suspended(_suspendReason) /\ ~enabled(_enabled, _suspendReason)

\* The value the call made by this step returned.
Returned == calls'[Len(calls')].ret

\* C22: resume(reason) always leaves the state unsuspended, whichever reason
\* the suspension was recorded under, leaves the base flag unchanged, and
\* returns true exactly when the state was suspended before the call.
C22_ResumeClearsAnyReason ==
    [][\A r \in Reasons :
          Resume(r) => /\ ~suspended(_suspendReason')
                       /\ _enabled' = _enabled
                       /\ Returned = suspended(_suspendReason)]_vars

\* resume('debugging') ended a suspension recorded under 'dirty'.
C22_Witness ==
    /\ Len(calls) >= 2
    /\ calls[Len(calls) - 1].op = "suspend" /\ calls[Len(calls) - 1].arg = "dirty"
    /\ calls[Len(calls)].op = "resume" /\ calls[Len(calls)].arg = "debugging"
    /\ calls[Len(calls)].ret
    /\ ~suspended(_suspendReason)

\* C23: suspend(reason) returns true only when the state was not suspended
\* and false on every further suspend; it never changes the base flag; the
\* recorded reason is that of the most recent suspend, and the effective
\* flag is false either way.
C23_SuspendLastWriterWins ==
    [][\A r \in Reasons :
          Suspend(r) => /\ Returned = ~suspended(_suspendReason)
                        /\ _enabled' = _enabled
                        /\ _suspendReason' = r
                        /\ ~enabled(_enabled', _suspendReason')]_vars

\* A second suspend under another reason returned false and replaced the reason.
C23_Witness ==
    /\ Len(calls) >= 2
    /\ calls[Len(calls) - 1].op = "suspend" /\ calls[Len(calls) - 1].arg = "debugging"
    /\ calls[Len(calls)].op = "suspend" /\ calls[Len(calls)].arg = "dirty"
    /\ ~calls[Len(calls)].ret
    /\ _suspendReason = "dirty"
    /\ _enabled

\* C24: after reset(e) the base flag equals e, no reason is set and the
\* enabled getter returns e; reset returns true exactly when the base flag
\* differed from e or the state was suspended before the call.
C24_ResetSetsBaseAndClears ==
    [][\A e \in BOOLEAN :
          Reset(e) => /\ _enabled' = e
                      /\ ~suspended(_suspendReason')
                      /\ enabled(_enabled', _suspendReason') = e
                      /\ Returned = (_enabled # e \/ suspended(_suspendReason))]_vars

\* reset(e) with the base flag already e returned true because it ended a suspension.
C24_Witness ==
    /\ Len(calls) >= 2
    /\ calls[Len(calls) - 1].op = "suspend"
    /\ calls[Len(calls)].op = "reset"
    /\ calls[Len(calls)].arg = calls[Len(calls)].baseBefore
    /\ calls[Len(calls)].ret
    /\ ~suspended(_suspendReason)

(***************************************************************************)
(* Properties of CurrentLineController.refresh, checked under SpecRefresh  *)
(***************************************************************************)
\* What refresh leaves behind when it clears: no decorations on the
\* controller's editor, no hover providers, no line state, no status bar, and
\* no blame update scheduled or asked for by the call.
ClearedNotScheduled ==
    /\ _editor # Undefined => decorations'[_editor] = {}
    /\ ~_hoverProviderDisposable'
    /\ lineState' = NoLineState
    /\ ~statusBarText'.shown
    /\ _updateBlameDebounced' = _updateBlameDebounced
    /\ refreshing' = refreshing
    /\ _editor' = _editor

\* C25: refresh(editor) changes nothing when the controller's editor and the
\* new editor are both undefined; when the new editor is undefined or the
\* line tracker has no active lines it clears (decorations removed, hover
\* providers unregistered, line state reset) and schedules no blame update.
C25_RefreshWithoutEditorOrLinesClears ==
    [][FileAnnotationsToggled =>
          IF activeTextEditor = Undefined /\ _editor = Undefined
          THEN UNCHANGED <<ctlVars, trkVars, annVars>>
          ELSE activeTextEditor = Undefined \/ lines = {} => ClearedNotScheduled]_vars

\* refresh ran without an editor on a controller that has one and has
\* cleared it.
C25_Witness ==
    /\ lastRefresh.by = "toggled" /\ lastRefresh.editor = Undefined
    /\ _editor # Undefined
    /\ ~_hoverProviderDisposable /\ decorations[_editor] = {}

\* This step calls the debounced updateBlame: the wait starts anew.
UpdateScheduled ==
    /\ DebouncePending(_updateBlameDebounced')
    /\ _updateBlameDebounced'.remaining = _updateBlameDebounced'.wait
    /\ _updateBlameDebounced' # _updateBlameDebounced

\* This step queues a refresh on the getOrAdd of its tracked document.
RefreshQueued == Len(refreshing') > Len(refreshing)

\* C26: a refresh with an editor other than the controller's, while the line
\* tracker has active lines, makes that editor the controller's editor, is
\* treated as full, and clears the decorations of the previous editor in the
\* step of the switch, which is the step that schedules the update for the
\* new editor or queues the refresh that will.
C26_SwitchClearsPreviousEditor ==
    [][/\ FileAnnotationsToggled /\ activeTextEditor # Undefined /\ lines # {}
              /\ activeTextEditor # _editor
          => _editor' = activeTextEditor
       /\ _editor' # _editor
          => /\ _editor' = activeTextEditor'
             /\ _editor # Undefined => decorations'[_editor] = {}
             /\ RefreshQueued => refreshing'[Len(refreshing')].full
             /\ UpdateScheduled
                    => /\ _updateBlameDebounced'.args.editor = _editor'
                       /\ blameCfg.hovers => _hoverProviderDisposable']_vars

\* The controller went from a decorated editor to another one, for which an
\* update is scheduled.
C26_Witness ==
    /\ lastBlame.decorated /\ inFlight = {}
    /\ \A e \in Editors : decorations[e] = {}
    /\ DebouncePending(_updateBlameDebounced)
    /\ _updateBlameDebounced.args.editor = _editor
    /\ \E l \in LineNumbers : lineState[l] # NoCommit /\ lineState[l].document # _editor

\* What clear(editor) leaves behind, with no blame update scheduled or asked for.
ClearedInsteadOfScheduled(ed) ==
    /\ decorations'[ed] = {}
    /\ ~_hoverProviderDisposable'
    /\ lineState' = NoLineState
    /\ ~statusBarText'.shown
    /\ _updateBlameDebounced' = _updateBlameDebounced

\* The debounced updateBlame was called for editor ed with the active lines:
\* it waits its 50ms.
ScheduledFor(ed) ==
    /\ DebouncePending(_updateBlameDebounced')
    /\ _updateBlameDebounced'.wait = 50
    /\ _updateBlameDebounced'.remaining = 50
    /\ _updateBlameDebounced'.args = [lines |-> lines, editor |-> ed,
                                      document |-> EditorDocument(ed)]

\* refresh(window.activeTextEditor) for an editor with active lines, up to
\* and including a getOrAdd that resolves at once.
RefreshOfActiveEditor ==
    LET ed == activeTextEditor
        r == _get(EditorDocument(ed))
        wanted == AnnotationsEnabled \/ blameCfg.statusBar \/ blameCfg.hovers IN
    IF ~wanted THEN ClearedInsteadOfScheduled(ed) /\ ~RefreshQueued
    ELSE IF r = 0 \/ ~records[r].initialized
         THEN /\ RefreshQueued
              /\ refreshing'[Len(refreshing')].editor = ed
              /\ _updateBlameDebounced' = _updateBlameDebounced
         ELSE /\ ~RefreshQueued
              /\ IF isBlameable(EditorDocument(ed)) THEN ScheduledFor(ed)
                 ELSE ClearedInsteadOfScheduled(ed)

\* C27: for a defined editor with active lines, refresh schedules the
\* debounced (50ms) blame update exactly when the annotations are effectively
\* enabled or the status bar or the current-line hovers are enabled, and the
\* tracked document is blameable; in every other case it clears.  Suspended
\* annotations with status bar and hovers off schedule nothing.
C27_ScheduledExactlyWhenEnabledAndBlameable ==
    [][/\ FileAnnotationsToggled /\ activeTextEditor # Undefined /\ lines # {}
          => RefreshOfActiveEditor
       /\ RefreshResumed
          => IF isBlameable(EditorDocument(Head(refreshing).editor))
             THEN ScheduledFor(Head(refreshing).editor)
             ELSE ClearedInsteadOfScheduled(Head(refreshing).editor)]_vars

\* refresh ran for an editor with active lines while the annotations were
\* suspended and neither the status bar nor the hovers were enabled, and
\* no update is scheduled.
C27_Witness ==
    /\ lastRefresh.by = "toggled" /\ lastRefresh.was = "dirty"
    /\ lastRefresh.editor # Undefined /\ lines # {}
    /\ isBlameable(EditorDocument(lastRefresh.editor))
    /\ blameCfg.currentLine /\ ~blameCfg.statusBar /\ ~blameCfg.hovers
    /\ ~DebouncePending(_updateBlameDebounced) /\ refreshing = <<>>

(***************************************************************************)
(* Properties of updateBlame and the tracker together, under SpecForce     *)
(***************************************************************************)
\* The tracker's handling of a change: when updateBlame applied a blame for
\* a dirty document the force flag of its record is set, and the handler of
\* a text change of that document resets the flag and, when the document is
\* the active editor's, schedules a dirty-state-changed notification.
HandledChangeConsumesFlag ==
    /\ BlameFetched /\ lastBlame'.setState
          => \A call \in ResumedCalls :
                 isDirty[call.document] /\ _documentMap[call.document] # 0
                     => records'[_documentMap[call.document]].force
    /\ TextChangeHandled
          => LET d == textChangedDebounced.args.document
                 r == _documentMap[d] IN
             r # 0 /\ records[r].force
                 => /\ ~records'[r].force
                    /\ activeTextEditor # Undefined /\ EditorDocument(activeTextEditor) = d
                           => NotificationScheduled

\* A change of the active document, made while its force flag was set, waits
\* for the handler.
ForcedChangeWaits ==
    /\ DebouncePending(textChangedDebounced)
    /\ textChangedDebounced.tag = "forced"
    /\ activeTextEditor # Undefined
    /\ EditorDocument(activeTextEditor) = textChangedDebounced.args.document

\* C28: when updateBlame applies a blame for an editor whose document is
\* dirty, the force flag of its tracked record is set, and the next text
\* change of that document, if it is the active one, reaches the handler,
\* which resets the flag and schedules a dirty-state-changed notification
\* although the dirty flag does not change.
C28_DirtyBlameForcesNextChange ==
    [][/\ HandledChangeConsumesFlag
       /\ ForcedChangeWaits /\ DebouncePending(textChangedDebounced')
              => textChangedDebounced'.args.document = textChangedDebounced.args.document]_vars

(***************************************************************************)
(* Properties of DiffDirectoryCommand.execute, checked under SpecDiff      *)
(***************************************************************************)
\* execute is over, or only the promise it returned is still to settle: the
\* finally block has run.
Exited == diffCommand.pc \in {"done", "pick.execute"}

\* On every exit path a progress cancellation source that was created is
\* disposed, and the help is opened only when the user took the offer.
DisposedOnExit ==
    /\ Exited => diffCommand.source # "live"
    /\ diffCommand.helpOpened => diffCommand.warned /\ diffCommand.accepted

\* An exception other than 'No diff tool found' that execute caught is logged
\* and reported by the generic error message.
OthersLoggedAndReported ==
    /\ diffCommand.pc = "done" /\ diffCommand.ex # NoException /\ ~diffCommand.rejected
    /\ toString(diffCommand.ex) # NoDiffToolFound
    => diffCommand.logged /\ diffCommand.errorShown /\ ~diffCommand.warned

\* C30: execute never propagates an exception: 'No diff tool found' is
\* surfaced as a warning with an offer to open the help (opened only when the
\* user accepts) and logged; every other exception is logged and reported by
\* the generic error message; a progress cancellation source that was
\* created is disposed on every exit path.
C30_ExecuteNeverPropagates ==
    /\ ~diffCommand.rejected
    /\ diffCommand.pc = "done" /\ toString(diffCommand.ex) = NoDiffToolFound
           => diffCommand.warned /\ diffCommand.logged
    /\ OthersLoggedAndReported
    /\ DisposedOnExit

(***************************************************************************)
(* Properties of overlapping getOrAdd calls, checked under SpecOverlap     *)
(***************************************************************************)
\* The getOrAdd calls that hold the record they will return or have just
\* returned it.
Resolving == {[arg |-> c.arg, doc |-> c.doc] : c \in {k \in apiCalls : k.op = "getOrAdd"}}
                 \cup {[arg |-> c.arg, doc |-> c.doc] :
                           c \in {k \in lastReturns : k.op = "getOrAdd" /\ ~k.threw}}

\* C31: getOrAdd calls for one untracked document or identifier that overlap
\* resolve to the same record, and only one record is created for it (no
\* document is closed and the tracker is not cleared under SpecOverlap).
C31_OverlappingGetOrAddShareRecord ==
    /\ \A c1 \in Resolving, c2 \in Resolving : c1.arg = c2.arg => c1.doc = c2.doc
    /\ \A r \in 1..Len(records), q \in 1..Len(records) :
           toKey(records[r].document) = toKey(records[q].document) => r = q

(***************************************************************************)
(* Properties of the order of notifications, checked under SpecOrder       *)
(***************************************************************************)
\* No change, callback or notification of the tracker is waiting.
Quiesced ==
    /\ immediates = <<>>
    /\ initWaiters = <<>>
    /\ ~DebouncePending(textChangedDebounced)
    /\ ~DebouncePending(_dirtyStateChangedDebounced)

\* C32: the dirty-state-changed notifications of the active document are
\* delivered in the order of its transitions: once nothing is waiting any
\* more, the last notification delivered for it carries the dirty value the
\* document has.
C32_LastNotificationIsFinalState ==
    (/\ Quiesced
     /\ lastNote.rec # 0
     /\ records[lastNote.rec].document = EditorDocument(activeTextEditor))
        => lastNote.dirty = isDirty[EditorDocument(activeTextEditor)]

(***************************************************************************)
(* Properties of the idle trigger across documents, checked under          *)
(* SpecTracker                                                             *)
(***************************************************************************)
\* The idle trigger is armed for a dirty document and the text change about
\* to be handled is of another document.
ArmedForAnotherDocument ==
    /\ DebouncePending(_dirtyIdleTriggeredDebounced)
    /\ DebounceDue(textChangedDebounced)
    /\ LET A == records[_dirtyIdleTriggeredDebounced.args.document].document IN
       /\ isDirty[A]
       /\ A # textChangedDebounced.args.document

\* C33: an idle trigger armed for dirty document A is neither cancelled nor
\* retargeted (nor restarted) when the text change of another document is
\* handled, so that it is delivered for A when A stays dirty and unedited
\* for the delay.
C33_IdleTriggerSurvivesOtherDocuments ==
    [][(TextDocumentChangedTimer /\ ArmedForAnotherDocument)
          => _dirtyIdleTriggeredDebounced' = _dirtyIdleTriggeredDebounced]_vars

(***************************************************************************)
(* Properties of the records' dirty flags, checked under SpecOrder         *)
(***************************************************************************)
\* C34: once the text changes have been handled (nothing is waiting), the
\* dirty flag of every tracked record equals the dirty state of its
\* document, for any interleaving of changes to several documents.
C34_RecordsFollowDocuments ==
    Quiesced => \A r \in 1..Len(records) :
                    ~records[r].disposed => records[r].dirty = isDirty[records[r].document]

(***************************************************************************)
(* Further properties of the debug suspension, checked under SpecSuspend   *)
(***************************************************************************)
\* A step of the controller that is not a show or toggle command of the
\* user: a dirty-state notification, an idle trigger, or the end of a session
\* that leaves another session running.
NotACommand ==
    \/ DirtyStateChanged
    \/ DirtyIdleTriggered
    \/ DebugSessionEnded /\ debugHost'.running > 0

\* C35: while a debug session that suspended the annotations is running,
\* they stay suspended across every step that is not a show or toggle
\* command of the user (stated for the steps taken with an active editor).
C35_DebugSuspensionHolds ==
    [][(/\ debugHost.running > 0
        /\ _blameAnnotationState = "set"
        /\ _suspendReason = "debugging"
        /\ activeTextEditor # Undefined
        /\ NotACommand)
          => suspended(_suspendReason')]_vars

\* C36: a session-end listener is armed only by a session start whose
\* suspension took effect (suspendBlameAnnotations went through its refresh
\* and reported true), at most one is registered at any time, and none is
\* left once every started session has ended.
C36_SessionEndListenerArmedOnce ==
    /\ [](/\ debugHost.listeners <= 1
          /\ debugHost.running = 0 => debugHost.listeners = 0)
    /\ [][(DebugSessionStarted
            /\ ~suspendBlameAnnotations("debugging", activeTextEditor).refresh)
              => /\ debugHost'.listeners = debugHost.listeners
                 /\ _debugSessionEndDisposable' = _debugSessionEndDisposable]_vars

(***************************************************************************)
(* Further properties of the decorations, checked under SpecBlame          *)
(***************************************************************************)
\* C37: after any sequence of refreshes, editor switches, line changes and
\* completed blame fetches, trailing decorations are present on at most one
\* editor, the controller's current editor.
C37_DecorationsOnlyOnCurrentEditor ==
    \A ed \in Editors : decorations[ed] # {} => ed = _editor

(***************************************************************************)
(* Properties of the idle trigger's handler, checked under SpecSuspend     *)
(***************************************************************************)
\* The handler left the annotation state and the controller as they were
\* and called no refresh.
NothingResumed ==
    /\ UNCHANGED <<_blameAnnotationState, _enabled, _suspendReason, ctlVars>>
    /\ lastRefresh' = NoRefresh

\* C38: on an idle trigger for document d the controller resumes a
\* suspension (nothing is suspended afterwards, the base flag is kept) and
\* refreshes the active editor, if there is one; except when the size
\* threshold is positive and d's line count exceeds it, and when nothing is
\* suspended: then the annotation state is left unchanged and no refresh is
\* invoked.
C38_IdleTriggerResumesUnderThreshold ==
    [][\A d \in Editors :
          DirtyIdleNotified(d)
              => IF overThreshold(d) THEN NothingResumed
                 ELSE IF _blameAnnotationState = "set" /\ suspended(_suspendReason)
                      THEN /\ ~suspended(_suspendReason')
                           /\ _enabled' = _enabled
                           /\ _blameAnnotationState' = "set"
                           /\ IF activeTextEditor # Undefined
                              THEN /\ lastRefresh'.editor = activeTextEditor
                                   /\ lastRefresh'.by = "idle"
                              ELSE lastRefresh' = NoRefresh
                      ELSE NothingResumed]_vars

\* With the size threshold configured, the idle trigger of a document
\* within it resumed annotations suspended for 'dirty' and refreshed the
\* active editor.
C38_Witness ==
    /\ lastRefresh.by = "idle" /\ lastRefresh.was = "dirty"
    /\ lastRefresh.editor = activeTextEditor /\ activeTextEditor # Undefined
    /\ lastRefresh.doc \in Editors
    /\ blameCfg.sizeThresholdAfterEdit > 0
    /\ lineCount(lastRefresh.doc) <= blameCfg.sizeThresholdAfterEdit
    /\ _blameAnnotationState = "set" /\ ~suspended(_suspendReason)

(***************************************************************************)
(* Properties of ResultsExplorer.addResults, checked under SpecResults     *)
(***************************************************************************)
\* No node is among the roots twice.
NoRootTwice == \A i \in 1..Len(_roots), j \in 1..Len(_roots) : _roots[i] = _roots[j] => i = j

\* The roots after the new node are the nodes rebuilt from the saved
\* results: new comparison nodes, one for each saved comparison, in order.
RebuiltFromSaved(node) ==
    /\ Len(_roots') = 1 + Len(Comparisons(savedResults))
    /\ \A i \in 2..Len(_roots') :
           /\ _roots'[i] > Len(nodes) /\ _roots'[i] # node
           /\ nodes'[_roots'[i]] = [kind |-> "comparison", disposed |-> FALSE]
           /\ i > 2 => _roots'[i] > _roots'[i - 1]

\* What addResults(node) has to do.
AddResultsEffect(node) ==
    IF includes(_roots, node)
    THEN ~lastAdd'.ret /\ UNCHANGED <<_roots, nodes>>
    ELSE /\ lastAdd'.ret
         /\ _roots'[1] = node
         /\ IF _roots # <<>> /\ ~keepResults
            THEN /\ \A i \in 1..Len(_roots) : nodes'[_roots[i]].disposed
                 /\ RebuiltFromSaved(node)
            ELSE /\ Tail(_roots') = _roots
                 /\ \A i \in 1..Len(nodes) : nodes'[i] = nodes[i]

\* C39: addResults with a node that is not among the roots puts it at index
\* 0; with keep-results off and roots present every previous root is
\* disposed and the roots become the new node followed by the nodes rebuilt
\* from the saved results; with keep-results on (or no roots) the previous
\* roots follow the new node in their order; with a node already among the
\* roots it returns false and changes nothing.  The roots never hold a node
\* twice.
C39_AddResultsPutsNodeFirst ==
    /\ []NoRootTwice
    /\ [][(ShowInResults \/ AddResults) => AddResultsEffect(lastAdd'.node)]_vars

\* With keep-results off and a comparison saved, a new node was added to
\* roots that were then disposed: the roots are the new node and the rebuilt
\* comparison.
C39_Witness ==
    /\ lastAdd.ret /\ lastAdd.cleared
    /\ ~keepResults
    /\ Len(_roots) >= 2 /\ _roots[1] = lastAdd.node
    /\ \E i \in 1..Len(nodes) : nodes[i].disposed
====
